---- MODULE Spec2Model ----
(***************************************************************************)
(* A model of the AsciiDoc -> NKBIP-01 converter (nkbip_converter.py and   *)
(* modules/): slug derivation, the tag builder and validator, the section  *)
(* organizer and the build / publish run of main().                        *)
(*                                                                         *)
(* Text is modelled as a sequence of characters, each a one-character      *)
(* string; a word of body text whose letters never matter is one atom and  *)
(* behaves as a single word character.                                     *)
(***************************************************************************)
EXTENDS Integers, Sequences, FiniteSets, TLC

VARIABLES
    \* ---- slug derivation (clean_tag) ----
    title,          \* the title handed to clean_tag
    other,          \* a second title, compared with the first
    slug,           \* clean_tag(title) once computed
    otherSlug,      \* clean_tag(other) once computed
    reSlug,         \* clean_tag applied to its own result
    cleaned,        \* whether clean_tag has run
    \* ---- tag builder and validator (modules/nkbip01_tags.py) ----
    tags,           \* the tag list being built or validated
    origin,         \* how the list came to be: "input", or the builder called
    tagMetadata,    \* the metadata the builder was called with
    ops,            \* the tag-assembly calls applied to it since, in order
    prevTags,       \* the list as it was before the last call
    argTags,        \* the list object passed to the last call, as it is after the call
    opRaised,       \* whether the last call raised instead of returning
    validated,      \* whether the validators have run on the list
    validation,     \* [index, content]: what each validator returned
    \* ---- section organizer (organize_sections) ----
    sections,       \* the parsed heading sequence handed to organize_sections
    organized,      \* the groups organize_sections returned
    pc,             \* where the caller stands
    \* ---- the run of main() ----
    document,       \* the heading lines of the input file, each with its body
    runMetadata,       \* what extract_metadata returned
    args,           \* the command-line arguments read so far
    gi,             \* the group the outer loop is at (from 1)
    ci,             \* the child the inner loop is at (from 1)
    sectionEvents, \* the content units of the current group
    all_events,     \* every unit built, as (type, event), in build order
    root_references, \* what the root index will reference
    pub_i,          \* the unit the publish loop is at (from 1)
    publish_log,    \* the publish_event calls made and what each returned
    all_success,    \* whether every publish_event call so far returned true
    halted,         \* why the run ended early, "no" when it did not
    userConfirmed,  \* whether --yes was given or the user answered y
    \* ---- extract_metadata ----
    metaLines,      \* the lines between the title line and the first section
    extracted,      \* the dictionary extract_metadata returned
    metaPc,         \* "extract" before the call, "extracted" after it
    \* ---- parse_adoc_file on the lines of a file ----
    fileLines,      \* the lines of the file
    parsed,         \* the sections parse_adoc_file returned
    parsePc,        \* "parse" before the call, "parsed" after it
    \* ---- publish_event (modules/event_publisher.py) ----
    pubMaxRetries,  \* the max_retries argument
    pubAttempts,    \* attempts
    pubSuccess,     \* success
    pubLog,         \* what the collaborators answered at each attempt, in order
    pubResult,      \* what publish_event returned
    pubPc,          \* "loop" while the call runs, "returned" after it
    \* ---- create_event (modules/event_creator.py) ----
    keyCache,       \* _DECRYPTED_KEY: <<>> for None, <<k>> for the key k
    decryptCalls,   \* how many times create_event has called decrypt_key
    signLog,        \* the signing commands run: arguments and the key used
    keyPc           \* "running", or "exited" after sys.exit(1)

slugVars == <<title, other, slug, otherSlug, reSlug, cleaned>>
tagVars == <<tags, origin, tagMetadata, ops, prevTags, argTags, opRaised, validated, validation>>
orgVars == <<sections, organized, pc>>
runVars == <<document, runMetadata, userConfirmed, args, gi, ci, sectionEvents, all_events, root_references,
             pub_i, publish_log, all_success, halted>>
metaVars == <<metaLines, extracted, metaPc>>
parseVars == <<fileLines, parsed, parsePc>>
pubVars == <<pubMaxRetries, pubAttempts, pubSuccess, pubLog, pubResult, pubPc>>
keyVars == <<keyCache, decryptCalls, signLog, keyPc>>

vars == <<title, other, slug, otherSlug, reSlug, cleaned,
          tags, origin, tagMetadata, ops, prevTags, argTags, opRaised, validated, validation,
          sections, organized, pc,
          document, runMetadata, userConfirmed, args, gi, ci, sectionEvents, all_events, root_references,
          pub_i, publish_log, all_success, halted,
          metaLines, extracted, metaPc, fileLines, parsed, parsePc,
          pubMaxRetries, pubAttempts, pubSuccess, pubLog, pubResult, pubPc,
          keyCache, decryptCalls, signLog, keyPc>>

(***************************************************************************)
(* Bounds of the model.                                                    *)
(***************************************************************************)
MaxTitleLen == 3
MaxMissing == 2     \* fields left out of a tag list handed to the validator
MaxTail == 2        \* further tags appended to such a list
MaxOps == 2         \* tag-assembly calls applied to a freshly built list
MaxSections == 4    \* headings in a sequence handed to organize_sections
MaxLevel == 3       \* deepest heading level in such a sequence
MaxRunSections == 4 \* headings in a document the converter is run on
MaxMetaLines == 3   \* lines in a metadata section handed to extract_metadata
MaxFileLines == 4   \* lines in a file handed to parse_adoc_file
MaxRetries == 5     \* largest max_retries publish_event is called with
MaxCalls == 3       \* create_event calls in one process

\* the sequences over S of length at most n
SeqsUpTo(S, n) == UNION {[1..k -> S] : k \in 0..n}

(***************************************************************************)
(* Characters.  Python's \w is letters, digits and underscore; \s is       *)
(* whitespace; str.lower() maps upper-case letters to lower case.          *)
(***************************************************************************)
UpperChars == {"A", "B", "D"}
SpaceChars == {" ", "\n"}
PunctChars == {"!", ":", "=", "[", "]"}

LowerChar(c) ==
    CASE c = "A" -> "a"
      [] c = "B" -> "b"
      [] c = "D" -> "d"
      [] c = "PublishedBy" -> "publishedby"
      [] OTHER -> c

IsSpace(c) == c \in SpaceChars
IsWordChar(c) == c \notin SpaceChars /\ c \notin PunctChars /\ c # "-"
IsSeparator(c) == c = "-" \/ IsSpace(c)

\* text.lower()
LowerNoop(text) == text
Lower(text) == [i \in 1..Len(text) |-> LowerChar(text[i])]

\* re.sub(r"[^\w\s-]", "", text)
RemoveSpecialAlsoHyphen(text) == SelectSeq(text, LAMBDA c : IsWordChar(c) \/ IsSpace(c))
RemoveSpecial(text) == SelectSeq(text, LAMBDA c : IsWordChar(c) \/ IsSpace(c) \/ c = "-")

\* re.sub(r"[-\s]+", "-", text): every maximal run of hyphens and whitespace
\* becomes one hyphen
RECURSIVE CollapseSeparators(_)
CollapseSeparators(text) ==
    IF text = <<>> THEN <<>>
    ELSE IF IsSeparator(Head(text))
         THEN IF Len(text) > 1 /\ IsSeparator(text[2])
              THEN CollapseSeparators(Tail(text))
              ELSE <<"-">> \o CollapseSeparators(Tail(text))
         ELSE <<Head(text)>> \o CollapseSeparators(Tail(text))

\* text.strip("-")
RECURSIVE LStripHyphens(_)
LStripHyphens(text) ==
    IF text # <<>> /\ Head(text) = "-" THEN LStripHyphens(Tail(text)) ELSE text

RECURSIVE RStripHyphens(_)
RStripHyphens(text) ==
    IF text # <<>> /\ text[Len(text)] = "-"
    THEN RStripHyphens(SubSeq(text, 1, Len(text) - 1))
    ELSE text

StripLeadingOnly(text) == LStripHyphens(text)
StripHyphens(text) == RStripHyphens(LStripHyphens(text))

\* modules/tag_utils.py clean_tag
clean_tag(text) == StripHyphens(CollapseSeparators(RemoveSpecial(Lower(text))))

\* modules/nkbip01_tags.py clean_tag (the same three steps)
nkbip01_clean_tag(text) == StripHyphens(CollapseSeparators(RemoveSpecial(Lower(text))))

(***************************************************************************)
(* modules/nkbip01_tags.py: the tag builder.  A tag is a sequence          *)
(* <<name, value, ...>>; a dict is a function whose domain is its key set  *)
(* (None and {} are both the empty function: the code only tests them for  *)
(* truth); None and "" are both "" for a string the code only tests for    *)
(* truth.                                                                  *)
(***************************************************************************)
EmptyDict == <<>>

MIME_TYPES ==
    [index |-> "application/json", asciidoc |-> "text/asciidoc",
     markdown |-> "text/markdown", plain |-> "text/plain", html |-> "text/html"]

NOSTR_CATEGORIES ==
    [index |-> "meta-data/index/replaceable",
     content |-> "article/publication-content/replaceable",
     external |-> "external-content/index/replaceable"]

\* f"{language}, ISO-639-1"
LanguageTagValue(language) == <<language, ", ISO-639-1">>

\* f"doi:{value}" and f"isbn:{value}"
ExternalId(scheme, value) == <<scheme, ":", value>>

\* if key in metadata: tags.append([name, metadata[key]])
OptionalTag(metadata, key, name) ==
    IF key \in DOMAIN metadata THEN << <<name, metadata[key]>> >> ELSE <<>>

\* for v in metadata[key]: tags.append([name, v])
OptionalTagPerItem(metadata, key, name) ==
    IF key \in DOMAIN metadata
    THEN [i \in 1..Len(metadata[key]) |-> <<name, metadata[key][i]>>]
    ELSE <<>>

\* the identifier tags: doi with its kind marker, isbn with its kind marker
\* only when there is no doi
IdentifierTagsBothKinds(metadata) ==
    (IF "doi" \in DOMAIN metadata
     THEN << <<"i", ExternalId("doi", metadata["doi"])>>, <<"k", "doi">> >>
     ELSE <<>>)
    \o (IF "isbn" \in DOMAIN metadata
        THEN << <<"i", ExternalId("isbn", metadata["isbn"])>>, <<"k", "isbn">> >>
        ELSE <<>>)
IdentifierTags(metadata) ==
    (IF "doi" \in DOMAIN metadata
     THEN << <<"i", ExternalId("doi", metadata["doi"])>>, <<"k", "doi">> >>
     ELSE <<>>)
    \o (IF "isbn" \in DOMAIN metadata
        THEN << <<"i", ExternalId("isbn", metadata["isbn"])>> >>
             \o (IF "doi" \notin DOMAIN metadata THEN << <<"k", "isbn">> >> ELSE <<>>)
        ELSE <<>>)

\* the index media type: MIME_TYPES["index"]
IndexMimeAsciidoc == MIME_TYPES["asciidoc"]
IndexMime == MIME_TYPES["index"]

\* NKBIP01Tags.create_index_tags
create_index_tags(ttl, d_tag, author, publication_type, auto_update, language, version, external, metadata) ==
    << <<"d", d_tag>>,
       <<"title", ttl>>,
       <<"auto-update", auto_update>>,
       <<"type", publication_type>>,
       <<"m", IndexMime>>,
       <<"M", NOSTR_CATEGORIES[IF external THEN "external" ELSE "index"]>>,
       <<"l", LanguageTagValue(language)>>,
       <<"reading-direction", "left-to-right, top-to-bottom">>,
       <<"version", version>> >>
    \o (IF author # "" THEN << <<"author", author>> >> ELSE <<>>)
    \o (IF external THEN << <<"external", "true">> >> ELSE <<>>)
    \o (IF DOMAIN metadata # {}
        THEN OptionalTag(metadata, "summary", "summary")
             \o OptionalTag(metadata, "image", "image")
             \o OptionalTag(metadata, "published_on", "published_on")
             \o OptionalTag(metadata, "published_by", "published_by")
             \o OptionalTag(metadata, "source", "source")
             \o IdentifierTags(metadata)
             \o OptionalTagPerItem(metadata, "tags", "t")
             \o OptionalTagPerItem(metadata, "additional_authors", "author")
        ELSE <<>>)

\* link.get(key, "")
LinkGet(link, key) == IF key \in DOMAIN link THEN link[key] ELSE ""

\* MIME_TYPES.get(content_type, MIME_TYPES["plain"])
ContentMime(content_type) ==
    IF content_type \in DOMAIN MIME_TYPES THEN MIME_TYPES[content_type]
    ELSE MIME_TYPES["plain"]

\* NKBIP01Tags.create_content_tags
create_content_tags_no_title(ttl, d_tag, content_type, language, wikilinks) ==
    << <<"d", d_tag>>,
       <<"m", ContentMime(content_type)>>,
       <<"M", NOSTR_CATEGORIES["content"]>>,
       <<"l", LanguageTagValue(language)>> >>
create_content_tags(ttl, d_tag, content_type, language, wikilinks) ==
    << <<"d", d_tag>>,
       <<"title", ttl>>,
       <<"m", ContentMime(content_type)>>,
       <<"M", NOSTR_CATEGORIES["content"]>>,
       <<"l", LanguageTagValue(language)>> >>
    \o [i \in 1..Len(wikilinks) |->
            <<"wikilink", wikilinks[i]["term"], LinkGet(wikilinks[i], "pubkey"),
              LinkGet(wikilinks[i], "relay"), LinkGet(wikilinks[i], "event_id")>>]

\* list.insert(index, item), index counted from 0
InsertAt(list, index, item) ==
    SubSeq(list, 1, index) \o <<item>> \o SubSeq(list, index + 1, Len(list))

\* tag[0] of an empty tag raises IndexError
HasName(tag) == Len(tag) >= 1

\* the positions (from 1) of the tags named name
PositionsOf(list, name) == {i \in 1..Len(list) : HasName(list[i]) /\ list[i][1] = name}

Min(S) == CHOOSE x \in S : \A y \in S : x <= y
Max(S) == CHOOSE x \in S : \A y \in S : x >= y

\* the for loop of add_derivative_work_tags: the 0-based insert index, i + 1
\* for the first tag named auto-update, else len(tags)
InsertIndexLast(list) ==
    IF PositionsOf(list, "auto-update") # {}
    THEN Max(PositionsOf(list, "auto-update"))
    ELSE Len(list)
InsertIndex(list) ==
    IF PositionsOf(list, "auto-update") # {}
    THEN Min(PositionsOf(list, "auto-update"))
    ELSE Len(list)

\* the loop reads tag[0] of every tag up to the first auto-update tag
DerivativeRaises(list) ==
    \E i \in 1..Len(list) :
        /\ ~HasName(list[i])
        /\ \A j \in 1..(i - 1) : list[j][1] # "auto-update"

\* e_tag: ["E", id], extended by [relay_url, pubkey] when relay_url is given
PointerTag(original_author_pubkey, original_event_id, relay_url) ==
    IF relay_url # ""
    THEN <<"E", original_event_id, relay_url, original_author_pubkey>>
    ELSE <<"E", original_event_id>>

\* NKBIP01Tags.add_derivative_work_tags, when it returns
add_derivative_work_tags(list, original_author_pubkey, original_event_id, relay_url) ==
    InsertAt(InsertAt(list, InsertIndex(list), <<"p", original_author_pubkey>>),
             InsertIndex(list) + 1,
             PointerTag(original_author_pubkey, original_event_id, relay_url))

(***************************************************************************)
(* modules/tag_utils.py: references.                                       *)
(***************************************************************************)
\* create_reference_tag: ["a", f"{kind}:{pubkey}:{d_tag}", relay_hint, event_id]
create_reference_tag(kind, pubkey, d_tag, event_id, relay_hint) ==
    <<"a", <<kind, ":", pubkey, ":", d_tag>>, relay_hint, event_id>>

\* add_reference_to_index
add_reference_to_index_front(index_tags, section_event, d_tag, relay) ==
    <<create_reference_tag(section_event.kind, section_event.pubkey, d_tag,
                           section_event.id, relay)>> \o index_tags
add_reference_to_index(index_tags, section_event, d_tag, relay) ==
    Append(index_tags,
           create_reference_tag(section_event.kind, section_event.pubkey, d_tag,
                                section_event.id, relay))

(***************************************************************************)
(* modules/nkbip01_tags.py: the validator.  A result is                    *)
(* [raised, is_valid, errors]; raised means the call ended in an           *)
(* exception and returned nothing.                                         *)
(***************************************************************************)
Raised == [raised |-> TRUE, is_valid |-> FALSE, errors |-> <<>>]
Returned(errors) == [raised |-> FALSE, is_valid |-> (Len(errors) = 0), errors |-> errors]
ReturnedAlwaysValid(errors) == [raised |-> FALSE, is_valid |-> TRUE, errors |-> errors]

\* tag_dict = {tag[0]: tag[1:] for tag in tags}: the last tag of a name wins
InTagDict(list, name) == PositionsOf(list, name) # {}
TagDictValue(list, name) == Tail(list[Max(PositionsOf(list, name))])

\* for req in required: if req not in tag_dict: errors.append(...)
RECURSIVE MissingErrors(_, _)
MissingErrorsFirstOnly(list, required) ==
    LET missing == SelectSeq(required, LAMBDA req : ~InTagDict(list, req))
    IN  IF missing = <<>> THEN <<>> ELSE << <<"Missing required tag", Head(missing)>> >>
MissingErrors(list, required) ==
    IF required = <<>> THEN <<>>
    ELSE (IF ~InTagDict(list, Head(required))
          THEN << <<"Missing required tag", Head(required)>> >>
          ELSE <<>>)
         \o MissingErrors(list, Tail(required))

AutoUpdateError == <<"auto-update must be 'yes', 'ask', or 'no'">>
MimeError == <<"Index events must have MIME type 'application/json'">>
ReferenceError == <<"Index must include at least one 'a' tag reference">>
AdjacencyError == <<"E tag must immediately follow p tag">>

\* the p/E loop: p_index is 0 for None, else the position of the last p tag
RECURSIVE AdjacencyErrors(_, _, _)
AdjacencyErrors(list, i, p_index) ==
    IF i > Len(list) THEN <<>>
    ELSE IF list[i][1] = "p" THEN AdjacencyErrors(list, i + 1, i)
    ELSE IF list[i][1] = "E" /\ p_index # 0
         THEN (IF i # p_index + 1 THEN <<AdjacencyError>> ELSE <<>>)
              \o AdjacencyErrors(list, i + 1, p_index)
    ELSE AdjacencyErrors(list, i + 1, p_index)

IndexRequired == <<"d", "title", "auto-update", "m", "M">>
ContentRequired == <<"d", "title">>

\* tag_dict[name][0] of a tag with no value raises IndexError
FirstValueRaises(list, name) == InTagDict(list, name) /\ TagDictValue(list, name) = <<>>

\* NKBIP01Tags.validate_index_tags
validate_index_tags(list) ==
    IF \E i \in 1..Len(list) : ~HasName(list[i]) THEN Raised
    ELSE IF FirstValueRaises(list, "auto-update") \/ FirstValueRaises(list, "m") THEN Raised
    ELSE Returned(
        MissingErrors(list, IndexRequired)
        \o (IF InTagDict(list, "auto-update")
               /\ TagDictValue(list, "auto-update")[1] \notin {"yes", "ask", "no"}
            THEN <<AutoUpdateError>> ELSE <<>>)
        \o (IF InTagDict(list, "m") /\ TagDictValue(list, "m")[1] # "application/json"
            THEN <<MimeError>> ELSE <<>>)
        \o (IF PositionsOf(list, "a") = {} THEN <<ReferenceError>> ELSE <<>>)
        \o AdjacencyErrors(list, 1, 0))

\* NKBIP01Tags.validate_content_tags
validate_content_tags(list) ==
    IF \E i \in 1..Len(list) : ~HasName(list[i]) THEN Raised
    ELSE Returned(MissingErrors(list, ContentRequired))

(***************************************************************************)
(* nkbip_converter.py: the section organizer.  A parsed section is         *)
(* [level, title, content]; a group is [title, content, is_root,           *)
(* l2_sections]; a child is [title, content].  current_l1 and current_l2   *)
(* are <<>> for None and <<x>> for the dict x (a dict with keys is true).  *)
(***************************************************************************)
\* "=" * n
RECURSIVE Markers(_)
Markers(n) == IF n <= 0 THEN <<>> ELSE <<"=">> \o Markers(n - 1)

\* current["content"] += f"\n\n{heading}\n{section['content']}" with
\* heading = "=" * level + " " + title
FoldIntoWithoutHeading(current, section) ==
    [current EXCEPT !.content = @ \o <<"\n", "\n">> \o section.content]
FoldInto(current, section) ==
    [current EXCEPT !.content =
        @ \o <<"\n", "\n">> \o Markers(section.level) \o <<" ">> \o section.title
          \o <<"\n">> \o section.content]

\* {"title": section["title"], "content": section["content"]}
NewChild(section) == [title |-> section.title, content |-> section.content]

\* if current: l2_sections.append(current)
FlushSectionDropped(l2_sections, current) == l2_sections
FlushSection(l2_sections, current) ==
    IF current # <<>> THEN Append(l2_sections, current[1]) ELSE l2_sections

\* one iteration of the loop of _group_l2_sections
GroupL2Step(st, section) ==
    IF section.level = 2
    THEN [l2_sections |-> FlushSection(st.l2_sections, st.current),
          current |-> <<NewChild(section)>>]
    ELSE IF section.level > 2 /\ st.current # <<>>
    THEN [st EXCEPT !.current = <<FoldInto(st.current[1], section)>>]
    ELSE st

RECURSIVE GroupL2Loop(_, _)
GroupL2Loop(st, rest) ==
    IF rest = <<>> THEN st ELSE GroupL2Loop(GroupL2Step(st, Head(rest)), Tail(rest))

\* _group_l2_sections
_group_l2_sections(secs) ==
    LET st == GroupL2Loop([l2_sections |-> <<>>, current |-> <<>>], secs)
    IN  FlushSection(st.l2_sections, st.current)

\* the group opened by a level-1 heading
NewGroupAlwaysRoot(section, first_l1) ==
    [title |-> section.title, content |-> section.content, is_root |-> TRUE,
     l2_sections |-> <<>>]
NewGroup(section, first_l1) ==
    [title |-> section.title, content |-> section.content, is_root |-> first_l1,
     l2_sections |-> <<>>]

\* if current_l2: current_l1["l2_sections"].append(current_l2)
WithChild(group, current_l2) ==
    [group EXCEPT !.l2_sections = FlushSection(@, current_l2)]

\* one iteration of the loop of organize_sections
OrganizeStepKeepsOrphans(st, section) ==
    IF section.level = 1
    THEN [organized |-> IF st.current_l1 # <<>>
                        THEN Append(st.organized, WithChild(st.current_l1[1], st.current_l2))
                        ELSE st.organized,
          current_l1 |-> <<NewGroup(section, st.first_l1)>>,
          current_l2 |-> <<>>,
          first_l1 |-> FALSE]
    ELSE IF section.level = 2 /\ st.current_l1 = <<>>
    THEN [st EXCEPT !.current_l1 = << [title |-> <<>>, content |-> <<>>, is_root |-> FALSE,
                                       l2_sections |-> <<>>] >>,
                    !.current_l2 = <<NewChild(section)>>]
    ELSE IF section.level = 2
    THEN [st EXCEPT !.current_l1 = <<WithChild(st.current_l1[1], st.current_l2)>>,
                    !.current_l2 = <<NewChild(section)>>]
    ELSE IF section.level > 2 /\ st.current_l2 # <<>>
    THEN [st EXCEPT !.current_l2 = <<FoldInto(st.current_l2[1], section)>>]
    ELSE st
OrganizeStep(st, section) ==
    IF section.level = 1
    THEN [organized |-> IF st.current_l1 # <<>>
                        THEN Append(st.organized, WithChild(st.current_l1[1], st.current_l2))
                        ELSE st.organized,
          current_l1 |-> <<NewGroup(section, st.first_l1)>>,
          current_l2 |-> <<>>,
          first_l1 |-> FALSE]
    ELSE IF section.level = 2 /\ st.current_l1 # <<>>
    THEN [st EXCEPT !.current_l1 = <<WithChild(st.current_l1[1], st.current_l2)>>,
                    !.current_l2 = <<NewChild(section)>>]
    ELSE IF section.level > 2 /\ st.current_l2 # <<>>
    THEN [st EXCEPT !.current_l2 = <<FoldInto(st.current_l2[1], section)>>]
    ELSE st

RECURSIVE OrganizeLoop(_, _)
OrganizeLoop(st, rest) ==
    IF rest = <<>> THEN st ELSE OrganizeLoop(OrganizeStep(st, Head(rest)), Tail(rest))

\* organize_sections
organize_sections(doc_title, secs) ==
    IF ~(\E i \in 1..Len(secs) : secs[i].level = 1)
    THEN << [title |-> doc_title, content |-> <<>>, is_root |-> TRUE,
             l2_sections |-> _group_l2_sections(secs)] >>
    ELSE LET st == OrganizeLoop([organized |-> <<>>, current_l1 |-> <<>>,
                                 current_l2 |-> <<>>, first_l1 |-> TRUE], secs)
         IN  IF st.current_l1 # <<>>
             THEN Append(st.organized, WithChild(st.current_l1[1], st.current_l2))
             ELSE st.organized

(***************************************************************************)
(* nkbip_converter.py and modules/tag_utils.py: building the units.        *)
(***************************************************************************)
\* modules/adoc_parser.py.  A heading line is a run of "=" markers, then
\* either a space and the title or the end of the line.
\* parse_adoc_file: len(line.split(" ")[0]); a line without a space counts its
\* line end as well
FileLevel(line) == IF line.spaced THEN line.markers ELSE line.markers + 1

\* parse_adoc_section: the heading is stripped before its markers are counted
\* and its title taken
parse_adoc_section(line) ==
    [level |-> line.markers,
     title |-> IF line.spaced THEN line.title ELSE <<>>,
     content |-> line.content]

\* parse_adoc_file: "Only process level 2 and deeper sections as content"
RECURSIVE parse_adoc_file_all_levels(_)
parse_adoc_file_all_levels(lines) ==
    IF lines = <<>> THEN <<>>
    ELSE <<parse_adoc_section(Head(lines))>> \o parse_adoc_file_all_levels(Tail(lines))

RECURSIVE parse_adoc_file(_)
parse_adoc_file(lines) ==
    IF lines = <<>> THEN <<>>
    ELSE (IF FileLevel(Head(lines)) >= 2 THEN <<parse_adoc_section(Head(lines))>> ELSE <<>>)
         \o parse_adoc_file(Tail(lines))

\* content.split("\n")
RECURSIVE SplitLines(_)
SplitLines(text) ==
    IF \A i \in 1..Len(text) : text[i] # "\n" THEN <<text>>
    ELSE LET nl == Min({i \in 1..Len(text) : text[i] = "\n"})
         IN  <<SubSeq(text, 1, nl - 1)>> \o SplitLines(SubSeq(text, nl + 1, Len(text)))

\* line.startswith("image::")
IsImageLine(line) ==
    Len(line) >= 3 /\ line[1] = "image" /\ line[2] = ":" /\ line[3] = ":"

\* line.split("::")[1].strip().split("[")[0].strip(): what follows the first
\* "::" up to the next "::" or "["
ImageOfLine(line) ==
    LET rest == SubSeq(line, 4, Len(line))
        stops == {i \in 1..Len(rest) :
                     rest[i] = "[" \/ (i < Len(rest) /\ rest[i] = ":" /\ rest[i + 1] = ":")}
    IN  IF stops = {} THEN rest ELSE SubSeq(rest, 1, Min(stops) - 1)

\* extract_images
extract_images(content) ==
    LET lines == SelectSeq(SplitLines(content), IsImageLine)
    IN  [i \in 1..Len(lines) |-> ImageOfLine(lines[i])]

\* extract_wiki_links is imported from modules.tag_utils, which does not
\* define it: the terms written [[term]] in the content, in order
RECURSIVE extract_wiki_links(_)
extract_wiki_links(content) ==
    IF Len(content) < 3 THEN <<>>
    ELSE IF content[1] = "[[" /\ content[3] = "]]"
         THEN <<content[2]>> \o extract_wiki_links(SubSeq(content, 4, Len(content)))
         ELSE extract_wiki_links(Tail(content))

\* create_section_tags: the d tag is f"{clean_tag(doc_title)}-{clean_tag(section_title)}"
\* with namespace, clean_tag(section_title) without
SectionIdentifierBare(doc_title, section_title, namespace) == clean_tag(section_title)
SectionIdentifier(doc_title, section_title, namespace) ==
    IF namespace
    THEN clean_tag(doc_title) \o <<"-">> \o clean_tag(section_title)
    ELSE clean_tag(section_title)

create_section_tags(doc_title, section_title, namespace) ==
    create_content_tags(section_title,
                        SectionIdentifier(doc_title, section_title, namespace),
                        "asciidoc", "en", <<>>)

\* the tags create_content_event hands to create_event
ContentEventTags(content, section_title, parent_title, author) ==
    create_section_tags(parent_title, section_title, TRUE)
    \o [i \in 1..Len(extract_images(content)) |-> <<"image", extract_images(content)[i]>>]
    \o [i \in 1..Len(extract_wiki_links(content)) |-> <<"w", extract_wiki_links(content)[i]>>]
    \o << <<"m", "text/asciidoc">> >>
    \o (IF author # "" THEN << <<"author", author>> >> ELSE <<>>)

\* create_event: the signing collaborator is handed the tags that have a value
\* and returns the signed record; ids are unique per record
SignedEvent(kind, content, tagList, id) ==
    [kind |-> kind, content |-> content,
     tags |-> SelectSeq(tagList, LAMBDA t : Len(t) >= 2),
     id |-> id, pubkey |-> "pk"]

\* next(tag[1] for tag in event["tags"] if tag[0] == "d")
DTagOf(event) == event.tags[Min(PositionsOf(event.tags, "d"))][2]

\* the entry main keeps for a unit an index will reference
ReferenceEntry(event, ttl) == [event |-> event, title |-> ttl, d_tag |-> DTagOf(event)]

\* create_index_event: the metadata keys copied into index_metadata
IndexMetadataKeys ==
    {"image", "summary", "published_on", "published_by", "source", "doi", "isbn",
     "issn", "tags", "additional_authors"}

IndexMetadata(metadata) ==
    [k \in {key \in IndexMetadataKeys :
               \/ key \in DOMAIN metadata
               \/ key = "published_on" /\ "published" \in DOMAIN metadata
               \/ key = "published_by" /\ "publisher" \in DOMAIN metadata}
        |-> IF k \in DOMAIN metadata THEN metadata[k]
            ELSE IF k = "published_on" THEN metadata["published"]
            ELSE metadata["publisher"]]

\* the language code: en by default, the known names mapped, else the first
\* two characters of the lower-cased value
LanguageCode(metadata) ==
    IF "language" \notin DOMAIN metadata THEN "en"
    ELSE LET lang_value == Lower(metadata["language"])
         IN  IF lang_value \in {<<"e", "n", "g", "l", "i", "s", "h">>, <<"e", "n">>} THEN "en"
             ELSE IF lang_value \in {<<"s", "p", "a", "n", "i", "s", "h">>, <<"e", "s">>} THEN "es"
             ELSE IF lang_value \in {<<"f", "r", "e", "n", "c", "h">>, <<"f", "r">>} THEN "fr"
             ELSE SubSeq(lang_value, 1, IF Len(lang_value) < 2 THEN Len(lang_value) ELSE 2)

MetadataGet(metadata, key, default) ==
    IF key \in DOMAIN metadata THEN metadata[key] ELSE default

\* if author_pubkey: insert ["p", author_pubkey] after the first auto-update tag
WithAuthorPubkey(index_tags, author_pubkey) ==
    IF author_pubkey # "" /\ PositionsOf(index_tags, "auto-update") # {}
    THEN InsertAt(index_tags, Min(PositionsOf(index_tags, "auto-update")),
                  <<"p", author_pubkey>>)
    ELSE index_tags

\* for section in section_events: index_tags = add_reference_to_index(...)
RECURSIVE WithReferencesSkippingFirst(_, _, _)
RECURSIVE WithReferences(_, _, _)
WithReferencesSkippingFirst(index_tags, section_events, primary_relay) ==
    IF section_events = <<>> THEN index_tags
    ELSE WithReferences(index_tags, Tail(section_events), primary_relay)
WithReferences(index_tags, section_events, primary_relay) ==
    IF section_events = <<>> THEN index_tags
    ELSE WithReferences(
             add_reference_to_index(index_tags, Head(section_events).event,
                                    Head(section_events).d_tag, primary_relay),
             Tail(section_events), primary_relay)

\* the tags create_index_event hands to create_event
IndexEventTags(ttl, section_events, primary_relay, metadata, author, author_pubkey) ==
    WithReferences(
        WithAuthorPubkey(
            create_index_tags(ttl, clean_tag(ttl),
                              IF author # "" THEN author ELSE MetadataGet(metadata, "author", ""),
                              MetadataGet(metadata, "type", "book"), "yes",
                              LanguageCode(metadata), MetadataGet(metadata, "version", "1"),
                              FALSE, IndexMetadata(metadata)),
            author_pubkey),
        section_events, primary_relay)

\* root_title = next(s["title"] for s in organized if s["is_root"])
RootTitle(groups) == groups[Min({k \in 1..Len(groups) : groups[k].is_root})].title

\* nak_decode(args.author_pubkey)["pubkey"] when the key is in npub form
DecodedPubkey(author_pubkey) ==
    IF author_pubkey = "npub1key" THEN "hexkey" ELSE author_pubkey

(***************************************************************************)
(* nkbip_converter.py: extract_metadata.  The metadata section is the      *)
(* lines between the title line and the first "== " heading; a line is     *)
(* [kind, name, value]: an attribute line ":name: value", an image line    *)
(* "image::value[]" or a plain line of text (name is "" for the last       *)
(* two).  A dictionary is a function from its keys.                        *)
(***************************************************************************)
\* text.strip()
RECURSIVE LStrip(_)
LStrip(text) == IF text # <<>> /\ IsSpace(Head(text)) THEN LStrip(Tail(text)) ELSE text

RECURSIVE RStrip(_)
RStrip(text) ==
    IF text # <<>> /\ IsSpace(text[Len(text)])
    THEN RStrip(SubSeq(text, 1, Len(text) - 1))
    ELSE text

Strip(text) == RStrip(LStrip(text))

\* text.split(",")
RECURSIVE SplitComma(_)
SplitComma(text) ==
    IF \A i \in 1..Len(text) : text[i] # "," THEN <<text>>
    ELSE LET c == Min({i \in 1..Len(text) : text[i] = ","})
         IN  <<SubSeq(text, 1, c - 1)>> \o SplitComma(SubSeq(text, c + 1, Len(text)))

\* [a.strip() for a in text.split(",")]
SplitStrip(text) == [i \in 1..Len(SplitComma(text)) |-> Strip(SplitComma(text)[i])]

\* metadata[key] = value
Put(dict, key, value) ==
    [k \in DOMAIN dict \cup {key} |-> IF k = key THEN value ELSE dict[k]]

\* re.search(r"^:name:\s+(.+?)$", ...): the value of the first line of that
\* name, as written; <<>> when there is none
FirstValue(lines, name) ==
    LET matches == SelectSeq(lines, LAMBDA l : l.kind = "attr" /\ l.name = name)
    IN  IF matches = <<>> THEN <<>> ELSE <<matches[1].value>>

\* the image of the section: re.search(r"image::([^\[]+)", ...)
WithImage(metadata, lines) ==
    LET images == SelectSeq(lines, LAMBDA l : l.kind = "image")
    IN  IF images = <<>> THEN metadata ELSE Put(metadata, "image", Strip(images[1].value))

\* authors: the :author: line, a list when it has a comma, then the items of
\* the :authors: line
Authors(lines) ==
    LET author_match == FirstValue(lines, "author")
        authors_match == FirstValue(lines, "authors")
    IN  (IF author_match = <<>> THEN <<>>
         ELSE IF \E i \in 1..Len(Strip(author_match[1])) : Strip(author_match[1])[i] = ","
              THEN SplitStrip(Strip(author_match[1]))
              ELSE <<Strip(author_match[1])>>)
        \o (IF authors_match = <<>> THEN <<>> ELSE SplitStrip(Strip(authors_match[1])))

WithAuthors(metadata, lines) ==
    IF Authors(lines) = <<>> THEN metadata
    ELSE IF Len(Authors(lines)) > 1
         THEN Put(Put(metadata, "author", Authors(lines)[1]),
                  "additional_authors", Tail(Authors(lines)))
         ELSE Put(metadata, "author", Authors(lines)[1])

\* " ".join(summary_lines)
RECURSIVE JoinWithSpace(_)
JoinWithSpace(texts) ==
    IF texts = <<>> THEN <<>>
    ELSE IF Len(texts) = 1 THEN texts[1]
    ELSE texts[1] \o <<" ">> \o JoinWithSpace(Tail(texts))

\* the summary: the stripped non-empty lines that are neither attribute nor
\* image lines
WithSummary(metadata, lines) ==
    LET plain == SelectSeq(lines, LAMBDA l : l.kind = "plain" /\ Strip(l.value) # <<>>)
        summary_lines == [i \in 1..Len(plain) |-> Strip(plain[i].value)]
    IN  IF summary_lines = <<>> THEN metadata
        ELSE Put(metadata, "summary", JoinWithSpace(summary_lines))

\* attribute_mapping, in the order of the dict
attribute_mapping ==
    << [key |-> "published_on",
        aliases |-> {"published_on", "publication_date", "date", "publishedon"}],
       [key |-> "published_by", aliases |-> {"published_by", "publisher", "publishedby"}],
       [key |-> "source", aliases |-> {"source", "url", "original_url"}],
       [key |-> "doi", aliases |-> {"doi"}],
       [key |-> "isbn", aliases |-> {"isbn"}],
       [key |-> "issn", aliases |-> {"issn"}],
       [key |-> "version", aliases |-> {"version", "edition"}],
       [key |-> "language", aliases |-> {"language", "lang"}],
       [key |-> "type", aliases |-> {"type", "publication_type", "pubtype"}],
       [key |-> "license", aliases |-> {"license"}],
       [key |-> "subject", aliases |-> {"subject"}],
       [key |-> "description", aliases |-> {"description", "abstract"}],
       [key |-> "copyright", aliases |-> {"copyright"}],
       [key |-> "translator", aliases |-> {"translator"}],
       [key |-> "editor", aliases |-> {"editor"}],
       [key |-> "illustrator", aliases |-> {"illustrator"}] >>

\* key = match.group(1).strip().lower()
AttributeKeyAsWritten(name) == name
AttributeKey(name) == LowerChar(name)

\* the entries of attribute_mapping that list the key as an alias
MappingsOf(key) ==
    {m \in 1..Len(attribute_mapping) : key \in attribute_mapping[m].aliases}

\* one iteration of the loop over the attribute lines
AttributeStep(metadata, line) ==
    LET key == AttributeKey(line.name)
        value == Strip(line.value)
    IN  IF MappingsOf(key) # {}
        THEN Put(metadata, attribute_mapping[Min(MappingsOf(key))].key, value)
        ELSE IF key \notin {"author", "authors", "tags", "keywords"}
             THEN Put(metadata, key, value)
             ELSE metadata

RECURSIVE AttributeLoop(_, _)
AttributeLoop(metadata, lines) ==
    IF lines = <<>> THEN metadata
    ELSE AttributeLoop(IF Head(lines).kind = "attr"
                       THEN AttributeStep(metadata, Head(lines))
                       ELSE metadata,
                       Tail(lines))

\* the items of the :tags:, :keywords: and :categories: lines, in that order
CollectedTags(lines) ==
    LET Items(name) == IF FirstValue(lines, name) = <<>> THEN <<>>
                       ELSE SplitStrip(FirstValue(lines, name)[1])
    IN  Items("tags") \o Items("keywords") \o Items("categories")

\* tag.lower(), what the seen set holds
DedupKeyExact(tag) == tag
DedupKey(tag) == Lower(tag)

\* the loop that removes duplicates while preserving order
RECURSIVE UniqueTags(_, _)
UniqueTags(tagList, seen) ==
    IF tagList = <<>> THEN <<>>
    ELSE IF DedupKey(Head(tagList)) \notin seen
         THEN <<Head(tagList)>>
              \o UniqueTags(Tail(tagList), seen \cup {DedupKey(Head(tagList))})
         ELSE UniqueTags(Tail(tagList), seen)

WithTags(metadata, lines) ==
    IF CollectedTags(lines) = <<>> THEN metadata
    ELSE Put(metadata, "tags", UniqueTags(CollectedTags(lines), {}))

\* extract_metadata: title_match is <<>> when the file has no title line,
\* else <<title>>
extract_metadata(title_match, lines) ==
    IF title_match = <<>> THEN EmptyDict
    ELSE WithTags(
             AttributeLoop(
                 WithSummary(
                     WithAuthors(
                         WithImage([k \in {"title"} |-> Strip(title_match[1])], lines),
                         lines),
                     lines),
                 lines),
             lines)

(***************************************************************************)
(* modules/adoc_parser.py on the lines of a file.  A line is the sequence  *)
(* of its characters (a word of body text counts as one character); a      *)
(* file is its lines without their line ends, and whether the last line    *)
(* has one.                                                                *)
(***************************************************************************)
\* f.readlines(): every line keeps its line end
Readlines(file) ==
    [i \in 1..Len(file.lines) |->
        IF i < Len(file.lines) \/ file.final_newline
        THEN Append(file.lines[i], "\n")
        ELSE file.lines[i]]

\* line.startswith(prefix)
StartsWith(line, prefix) ==
    Len(line) >= Len(prefix) /\ SubSeq(line, 1, Len(prefix)) = prefix

\* the positions of the spaces of a line
SpacesOf(line) == {i \in 1..Len(line) : line[i] = " "}

\* line.split(" ")[0]
FirstToken(line) ==
    IF SpacesOf(line) = {} THEN line ELSE SubSeq(line, 1, Min(SpacesOf(line)) - 1)

\* heading.split(" ", 1)[1].strip() if " " in heading else ""
HeadingTitle(heading) ==
    IF SpacesOf(heading) = {} THEN <<>>
    ELSE Strip(SubSeq(heading, Min(SpacesOf(heading)) + 1, Len(heading)))

\* "\n".join(content)
RECURSIVE JoinLines(_)
JoinLines(content) ==
    IF content = <<>> THEN <<>>
    ELSE IF Len(content) = 1 THEN content[1]
    ELSE content[1] \o <<"\n">> \o JoinLines(Tail(content))

\* the while loop of parse_adoc_section: the first line from current_line on
\* that starts with "=", or the end of the file
RECURSIVE ContentEnd(_, _)
ContentEnd(lines, current_line) ==
    IF current_line > Len(lines) THEN current_line
    ELSE IF StartsWith(lines[current_line], <<"=">>) THEN current_line
    ELSE ContentEnd(lines, current_line + 1)

\* parse_adoc_section: the section read from line start, and the line after it
parse_adoc_section_lines(lines, start) ==
    LET is_heading == StartsWith(lines[start], <<"=">>)
        heading == Strip(lines[start])
        first == IF is_heading THEN start + 1 ELSE start
        current_line == ContentEnd(lines, first)
    IN  [section |-> [title |-> IF is_heading THEN HeadingTitle(heading) ELSE <<>>,
                      level |-> IF is_heading THEN Len(FirstToken(heading)) ELSE 0,
                      content |-> Strip(JoinLines(SubSeq(lines, first, current_line - 1)))],
         current_line |-> current_line]

\* "Skip header metadata (lines starting with :)"
RECURSIVE StartLine(_, _)
StartLine(lines, start_line) ==
    IF start_line <= Len(lines) /\ StartsWith(lines[start_line], <<":">>)
    THEN StartLine(lines, start_line + 1)
    ELSE start_line

\* the document title: the first line that starts with "= "
FileTitle(lines) ==
    LET titles == {i \in 1..Len(lines) : StartsWith(lines[i], <<"=", " ">>)}
    IN  IF titles = {} THEN <<>>
        ELSE Strip(SubSeq(lines[Min(titles)], 3, Len(lines[Min(titles)])))

\* level = len(line.split(" ")[0]); if level >= 2
MinSectionLevel == 2
IsSectionLine(line) ==
    StartsWith(line, <<"=">>) /\ Len(FirstToken(line)) >= MinSectionLevel

\* the while loop of parse_adoc_file
RECURSIVE ParseLoop(_, _)
ParseLoop(lines, current_line) ==
    IF current_line > Len(lines) THEN <<>>
    ELSE IF IsSectionLine(lines[current_line])
         THEN <<parse_adoc_section_lines(lines, current_line).section>>
              \o ParseLoop(lines, parse_adoc_section_lines(lines, current_line).current_line)
         ELSE ParseLoop(lines, current_line + 1)

\* parse_adoc_file
parse_adoc_file_lines(file) ==
    [title |-> FileTitle(Readlines(file)),
     sections |-> ParseLoop(Readlines(file), StartLine(Readlines(file), 1))]

(***************************************************************************)
(* Each specification below exercises one part of the program and leaves   *)
(* the state of the other parts idle.                                      *)
(***************************************************************************)
NoValidation == [raised |-> FALSE, is_valid |-> FALSE, errors |-> <<>>]

IdleTags ==
    /\ tags = <<>>
    /\ origin = "idle"
    /\ tagMetadata = EmptyDict
    /\ ops = <<>>
    /\ prevTags = <<>>
    /\ argTags = <<>>
    /\ opRaised = FALSE
    /\ validated = "no"
    /\ validation = NoValidation

IdleSlug ==
    /\ title = <<>>
    /\ other = <<>>
    /\ slug = <<>>
    /\ otherSlug = <<>>
    /\ reSlug = <<>>
    /\ cleaned = FALSE

IdleOrg ==
    /\ sections = <<>>
    /\ organized = <<>>
    /\ pc = "idle"

NoArgs == [author |-> "", author_pubkey |-> "", file_only |-> FALSE]

IdleRun ==
    /\ document = <<>>
    /\ runMetadata = EmptyDict
    /\ userConfirmed = FALSE
    /\ args = NoArgs
    /\ gi = 0
    /\ ci = 0
    /\ sectionEvents = <<>>
    /\ all_events = <<>>
    /\ root_references = <<>>
    /\ pub_i = 0
    /\ publish_log = <<>>
    /\ all_success = TRUE
    /\ halted = "no"

IdleMeta ==
    /\ metaLines = <<>>
    /\ extracted = EmptyDict
    /\ metaPc = "idle"

IdleParse ==
    /\ fileLines = <<>>
    /\ parsed = <<>>
    /\ parsePc = "idle"

IdlePublish ==
    /\ pubMaxRetries = 0
    /\ pubAttempts = 0
    /\ pubSuccess = FALSE
    /\ pubLog = <<>>
    /\ pubResult = FALSE
    /\ pubPc = "idle"

IdleKey ==
    /\ keyCache = <<>>
    /\ decryptCalls = 0
    /\ signLog = <<>>
    /\ keyPc = "idle"

(***************************************************************************)
(* The tag builder and validator as a state machine: a tag list is either  *)
(* handed in (any list: an index tag list with some fields left out and    *)
(* some further tags appended) or built by one of the two builders; the    *)
(* assembly calls extend it; a validator judges it.                        *)
(***************************************************************************)
SectionEvent == [kind |-> 30041, pubkey |-> "pk", id |-> "e1"]
RelayUrl == "wss://relay"

ReferenceTag == create_reference_tag(30041, "pk", "t-s", "e1", RelayUrl)

\* a complete index tag list with one reference
FullIndexTags ==
    Append(create_index_tags("T", "t", "", "book", "yes", "en", "1", FALSE, EmptyDict),
           ReferenceTag)

RECURSIVE Without(_, _, _)
Without(list, dropped, i) ==
    IF i > Len(list) THEN <<>>
    ELSE (IF i \in dropped THEN <<>> ELSE <<list[i]>>) \o Without(list, dropped, i + 1)

\* tags appended to an input list: a reference, the two provenance tags, a bad
\* auto-update value, a bad media type, tags with a name and no value, and a
\* tag with nothing in it
TailTags ==
    {ReferenceTag, <<"p", "opk">>, <<"E", "oid">>, <<"auto-update", "maybe">>,
     <<"m", "text/plain">>, <<"auto-update">>, <<"m">>, <<>>}

TagListInputs ==
    {Without(FullIndexTags, dropped, 1) \o tail :
        dropped \in {D \in SUBSET (1..Len(FullIndexTags)) : Cardinality(D) <= MaxMissing},
        tail \in SeqsUpTo(TailTags, MaxTail)}

MetadataValues ==
    [summary |-> "S", doi |-> "10.1/x", isbn |-> "978-1", tags |-> <<"t1", "t2">>]

MetadataInputs ==
    {[k \in keys |-> MetadataValues[k]] : keys \in SUBSET {"summary", "doi", "isbn", "tags"}}

WikilinkInputs == {<<>>, <<[term |-> "w"]>>, <<[term |-> "w", pubkey |-> "wpk"]>>}

InitTags ==
    /\ \/ origin = "input" /\ tags \in TagListInputs
       \/ origin = "none" /\ tags = <<>>
    /\ tagMetadata = EmptyDict
    /\ ops = <<>>
    /\ prevTags = <<>>
    /\ argTags = <<>>
    /\ opRaised = FALSE
    /\ validated = "no"
    /\ validation = NoValidation
    /\ IdleSlug
    /\ IdleOrg
    /\ IdleRun
    /\ IdleMeta
    /\ IdleParse
    /\ IdlePublish
    /\ IdleKey

\* a caller builds the tags of an index unit
CreateIndexTags ==
    /\ origin = "none"
    /\ \E ttl \in {"T", "U"}, auto_update \in {"yes", "ask", "no"},
          author \in {"", "Alice"}, external \in BOOLEAN, metadata \in MetadataInputs :
          /\ tags' = create_index_tags(ttl, "t", author, "book", auto_update, "en", "1",
                                       external, metadata)
          /\ tagMetadata' = metadata
    /\ origin' = "create_index_tags"
    /\ UNCHANGED <<ops, prevTags, argTags, opRaised, validated, validation>>
    /\ UNCHANGED slugVars
    /\ UNCHANGED orgVars
    /\ UNCHANGED runVars
    /\ UNCHANGED <<metaVars, parseVars, pubVars, keyVars>>

\* a caller builds the tags of a content unit
CreateContentTags ==
    /\ origin = "none"
    /\ \E ttl \in {"T", "U"}, content_type \in {"asciidoc", "docx"},
          wikilinks \in WikilinkInputs :
          tags' = create_content_tags(ttl, "t-s", content_type, "en", wikilinks)
    /\ origin' = "create_content_tags"
    /\ UNCHANGED <<tagMetadata, ops, prevTags, argTags, opRaised, validated, validation>>
    /\ UNCHANGED slugVars
    /\ UNCHANGED orgVars
    /\ UNCHANGED runVars
    /\ UNCHANGED <<metaVars, parseVars, pubVars, keyVars>>

\* index_tags.append(ref_tag); return index_tags, and tags.insert(...);
\* return tags: the call changes the list object it was passed and returns
\* that same object, so the caller's list holds the result after the call
ArgumentAfterCopy(list, result) == list
ArgumentAfter(list, result) == result

\* the assembly calls: any on a built list, the derivative-work linkage on any
\* list
CanExtend ==
    /\ validated = "no"
    /\ ~opRaised
    /\ origin # "none"
    /\ IF origin = "input" THEN ops = <<>> ELSE Len(ops) < MaxOps

AddReference ==
    /\ CanExtend
    /\ origin # "input"
    /\ prevTags' = tags
    /\ tags' = add_reference_to_index(tags, SectionEvent, "t-s", RelayUrl)
    /\ argTags' = ArgumentAfter(tags, tags')
    /\ ops' = Append(ops, "add_reference_to_index")
    /\ UNCHANGED <<origin, tagMetadata, opRaised, validated, validation>>
    /\ UNCHANGED slugVars
    /\ UNCHANGED orgVars
    /\ UNCHANGED runVars
    /\ UNCHANGED <<metaVars, parseVars, pubVars, keyVars>>

AddDerivativeWork ==
    /\ CanExtend
    /\ prevTags' = tags
    /\ \E relay_url \in {"", RelayUrl} :
          IF DerivativeRaises(tags)
          THEN opRaised' = TRUE /\ tags' = tags /\ argTags' = tags
          ELSE /\ opRaised' = FALSE
               /\ tags' = add_derivative_work_tags(tags, "opk", "oid", relay_url)
               /\ argTags' = ArgumentAfter(tags, tags')
    /\ ops' = Append(ops, "add_derivative_work_tags")
    /\ UNCHANGED <<origin, tagMetadata, validated, validation>>
    /\ UNCHANGED slugVars
    /\ UNCHANGED orgVars
    /\ UNCHANGED runVars
    /\ UNCHANGED <<metaVars, parseVars, pubVars, keyVars>>

CanValidate ==
    /\ validated = "no"
    /\ ~opRaised
    /\ origin # "none"
    /\ origin = "input" => ops = <<>>

ValidateIndex ==
    /\ CanValidate
    /\ validation' = validate_index_tags(tags)
    /\ validated' = "index"
    /\ UNCHANGED <<tags, origin, tagMetadata, ops, prevTags, argTags, opRaised>>
    /\ UNCHANGED slugVars
    /\ UNCHANGED orgVars
    /\ UNCHANGED runVars
    /\ UNCHANGED <<metaVars, parseVars, pubVars, keyVars>>

ValidateContent ==
    /\ CanValidate
    /\ validation' = validate_content_tags(tags)
    /\ validated' = "content"
    /\ UNCHANGED <<tags, origin, tagMetadata, ops, prevTags, argTags, opRaised>>
    /\ UNCHANGED slugVars
    /\ UNCHANGED orgVars
    /\ UNCHANGED runVars
    /\ UNCHANGED <<metaVars, parseVars, pubVars, keyVars>>

NextTags ==
    \/ CreateIndexTags
    \/ CreateContentTags
    \/ AddReference
    \/ AddDerivativeWork
    \/ ValidateIndex
    \/ ValidateContent

SpecTags == InitTags /\ [][NextTags]_vars

(***************************************************************************)
(* organize_sections applied to every heading sequence within the bounds.  *)
(***************************************************************************)
DocTitle == <<"D", "o", "c">>
TitleA == <<"A">>
TitleB == <<"B">>

\* the body under a heading: a paragraph under A, nothing under B
BodyOf(ttl) == IF ttl = TitleA THEN <<"body1">> ELSE <<>>

SectionInputs ==
    {[level |-> l, title |-> t, content |-> BodyOf(t)] : l \in 1..MaxLevel, t \in {TitleA, TitleB}}

HeadingSeqs == SeqsUpTo(SectionInputs, MaxSections)

InitOrg ==
    /\ sections \in HeadingSeqs
    /\ organized = <<>>
    /\ pc = "organize"
    /\ IdleSlug
    /\ IdleTags
    /\ IdleRun
    /\ IdleMeta
    /\ IdleParse
    /\ IdlePublish
    /\ IdleKey

OrganizeSections ==
    /\ pc = "organize"
    /\ organized' = organize_sections(DocTitle, sections)
    /\ pc' = "organized"
    /\ UNCHANGED sections
    /\ UNCHANGED slugVars
    /\ UNCHANGED tagVars
    /\ UNCHANGED runVars
    /\ UNCHANGED <<metaVars, parseVars, pubVars, keyVars>>

NextOrg == OrganizeSections

SpecOrg == InitOrg /\ [][NextOrg]_vars

(***************************************************************************)
(* main() of nkbip_converter.py for an AsciiDoc file: organize the parsed  *)
(* sections, build and sign the content units and the indexes, confirm,    *)
(* publish.  The build loop is run on every tree organize_sections         *)
(* returns for a heading sequence within the bounds.  The signing,         *)
(* verification and publish collaborators may fail at every call.          *)
(***************************************************************************)
PrimaryRelay == "wss://relay"

\* the heading lines a document is made of after its title line "= Doc" and
\* its attribute lines: "= A" (a further level-1 heading), a bare "=" line,
\* "== A", "== B" and "=== A", each followed by its body
RunBody(markers, ttl) ==
    IF markers > 2 THEN <<"image", ":", ":", "pic.png", "[", "]">>
    ELSE IF ttl = TitleA THEN <<"body1">> ELSE <<"body2">>

HeadingLine(markers, spaced, ttl) ==
    [markers |-> markers, spaced |-> spaced, title |-> ttl, content |-> RunBody(markers, ttl)]

HeadingLines ==
    {HeadingLine(1, TRUE, TitleA), HeadingLine(1, FALSE, <<>>), HeadingLine(2, TRUE, TitleA),
     HeadingLine(2, TRUE, TitleB), HeadingLine(3, TRUE, TitleA)}

Documents == SeqsUpTo(HeadingLines, MaxRunSections)

\* what extract_metadata returns for the document: its title, and its author
\* attribute when it has one
RunMetadataInputs ==
    {[k \in {"title"} |-> DocTitle],
     [k \in {"title", "author"} |-> IF k = "title" THEN DocTitle ELSE "Alice"]}

Init ==
    /\ document \in Documents
    /\ sections = <<>>
    /\ runMetadata \in RunMetadataInputs
    /\ userConfirmed = FALSE
    /\ organized = <<>>
    /\ pc = "start"
    /\ args = NoArgs
    /\ gi = 0
    /\ ci = 0
    /\ sectionEvents = <<>>
    /\ all_events = <<>>
    /\ root_references = <<>>
    /\ pub_i = 0
    /\ publish_log = <<>>
    /\ all_success = TRUE
    /\ halted = "no"
    /\ IdleSlug
    /\ IdleTags
    /\ IdleMeta
    /\ IdleParse
    /\ IdlePublish
    /\ IdleKey

\* the outcomes of create_event followed by verify_event
Outcomes == {"ok", "sign_failed", "verify_failed"}

\* argument handling, --file-only, extract_metadata, parse_adoc_file, the
\* author default (lines 479-545); doc["title"] is the title line's, DocTitle
Start ==
    /\ pc = "start"
    /\ \E author \in {"", "Bob"}, author_pubkey \in {"", "hexkey"}, file_only \in BOOLEAN :
          /\ args' = [author |-> IF ~file_only /\ author = "" /\ "author" \in DOMAIN runMetadata
                                 THEN runMetadata["author"] ELSE author,
                      author_pubkey |-> author_pubkey,
                      file_only |-> file_only]
          /\ sections' = IF file_only THEN sections ELSE parse_adoc_file(document)
          /\ pc' = IF file_only THEN "exit0" ELSE "parsed"
    /\ UNCHANGED <<organized, runMetadata, userConfirmed, gi, ci, sectionEvents, all_events,
                   root_references, pub_i, publish_log, all_success, halted>>
    /\ UNCHANGED <<document, slugVars, tagVars, metaVars, parseVars,
                   pubVars, keyVars>>

\* organize_sections and the empty check (lines 548-556)
Organize ==
    /\ pc = "parsed"
    /\ organized' = organize_sections(DocTitle, sections)
    /\ IF organized' = <<>>
       THEN pc' = "exit1" /\ halted' = "no_sections" /\ gi' = gi /\ ci' = ci
       ELSE pc' = "build" /\ halted' = halted /\ gi' = 1 /\ ci' = 1
    /\ UNCHANGED <<sections, runMetadata, userConfirmed, args, sectionEvents, all_events,
                   root_references, pub_i, publish_log, all_success>>
    /\ UNCHANGED <<document, slugVars, tagVars, metaVars, parseVars,
                   pubVars, keyVars>>

InGroup == pc = "build" /\ gi <= Len(organized)

\* create_event and the verify_event check end the process on failure:
\* sys.exit(1)
ExitOnFailureContinues(current) == current
ExitOnFailure(current) == "exit1"

\* if not l1_section["is_root"] and section_events
NeedsIndexAnyGroup(l1_section, section_events) == section_events # <<>>
NeedsIndex(l1_section, section_events) ==
    ~l1_section.is_root /\ section_events # <<>>

\* one iteration of the inner loop: create_content_event for the next child of
\* the current group (lines 562-579)
CreateContentEvent ==
    /\ InGroup
    /\ ci <= Len(organized[gi].l2_sections)
    /\ \E outcome \in Outcomes :
          LET l2_section == organized[gi].l2_sections[ci]
              event == SignedEvent(30041, l2_section.content,
                                   ContentEventTags(l2_section.content, l2_section.title,
                                                    organized[gi].title, args.author),
                                   Len(all_events) + 1)
          IN  IF outcome = "ok"
              THEN /\ sectionEvents' = Append(sectionEvents,
                                               ReferenceEntry(event, l2_section.title))
                   /\ all_events' = Append(all_events, <<"Content", event>>)
                   /\ ci' = ci + 1
                   /\ UNCHANGED <<pc, halted>>
              ELSE /\ pc' = ExitOnFailure(pc)
                   /\ halted' = outcome
                   /\ UNCHANGED <<sectionEvents, all_events, ci>>
    /\ UNCHANGED <<sections, organized, runMetadata, userConfirmed, args, gi, root_references, pub_i,
                   publish_log, all_success>>
    /\ UNCHANGED <<document, slugVars, tagVars, metaVars, parseVars,
                   pubVars, keyVars>>

\* the end of an iteration of the outer loop for a non-root group that has
\* content units: its index is created and referenced from the root
\* (lines 582-600)
CreateGroupIndex ==
    /\ InGroup
    /\ ci > Len(organized[gi].l2_sections)
    /\ NeedsIndex(organized[gi], sectionEvents)
    /\ \E outcome \in Outcomes :
          LET l1_index == SignedEvent(30040, <<>>,
                                      IndexEventTags(organized[gi].title, sectionEvents,
                                                     PrimaryRelay, EmptyDict, args.author,
                                                     args.author_pubkey),
                                      Len(all_events) + 1)
          IN  IF outcome = "ok"
              THEN /\ all_events' = Append(all_events, <<"Index", l1_index>>)
                   /\ root_references' = Append(root_references,
                                                ReferenceEntry(l1_index, organized[gi].title))
                   /\ gi' = gi + 1
                   /\ ci' = 1
                   /\ sectionEvents' = <<>>
                   /\ UNCHANGED <<pc, halted>>
              ELSE /\ pc' = ExitOnFailure(pc)
                   /\ halted' = outcome
                   /\ UNCHANGED <<all_events, root_references, gi, ci, sectionEvents>>
    /\ UNCHANGED <<sections, organized, runMetadata, userConfirmed, args, pub_i, publish_log, all_success>>
    /\ UNCHANGED <<document, slugVars, tagVars, metaVars, parseVars,
                   pubVars, keyVars>>

\* the end of an iteration of the outer loop otherwise: the root group hands
\* its content units to the root references, a non-root group without content
\* units gets nothing (lines 582, 601-603)
CloseGroup ==
    /\ InGroup
    /\ ci > Len(organized[gi].l2_sections)
    /\ ~NeedsIndex(organized[gi], sectionEvents)
    /\ root_references' = IF organized[gi].is_root
                          THEN root_references \o sectionEvents
                          ELSE root_references
    /\ gi' = gi + 1
    /\ ci' = 1
    /\ sectionEvents' = <<>>
    /\ UNCHANGED <<sections, organized, runMetadata, userConfirmed, args, all_events, pub_i, publish_log,
                   all_success, pc, halted>>
    /\ UNCHANGED <<document, slugVars, tagVars, metaVars, parseVars,
                   pubVars, keyVars>>

\* the root index (lines 605-624)
CreateRootIndex ==
    /\ pc = "build"
    /\ gi > Len(organized)
    /\ \E outcome \in Outcomes :
          LET root_index == SignedEvent(30040, <<>>,
                                        IndexEventTags(RootTitle(organized), root_references,
                                                       PrimaryRelay, runMetadata, args.author,
                                                       DecodedPubkey(args.author_pubkey)),
                                        Len(all_events) + 1)
          IN  IF outcome = "ok"
              THEN /\ all_events' = Append(all_events, <<"Root Index", root_index>>)
                   /\ pc' = "confirm"
                   /\ UNCHANGED halted
              ELSE /\ pc' = ExitOnFailure(pc)
                   /\ halted' = outcome
                   /\ UNCHANGED all_events
    /\ args' = [args EXCEPT !.author_pubkey = DecodedPubkey(@)]
    /\ UNCHANGED <<sections, organized, runMetadata, userConfirmed, gi, ci, sectionEvents,
                   root_references, pub_i, publish_log, all_success>>
    /\ UNCHANGED <<document, slugVars, tagVars, metaVars, parseVars,
                   pubVars, keyVars>>

\* if not args.yes: if input(...).lower() != "y": sys.exit(0)
GoesOnToPublishUnasked(yes, answer) == TRUE
GoesOnToPublish(yes, answer) == yes \/ answer \in {"y", "Y"}

\* the summary and the confirmation: --yes, or the user's answer
\* (lines 626-638)
Confirm ==
    /\ pc = "confirm"
    /\ \E yes \in BOOLEAN, answer \in {"y", "Y", "n"} :
          /\ userConfirmed' = (yes \/ answer \in {"y", "Y"})
          /\ IF GoesOnToPublish(yes, answer)
             THEN pc' = "publish" /\ pub_i' = 1 /\ halted' = halted
             ELSE pc' = "exit0" /\ pub_i' = pub_i /\ halted' = "cancelled"
    /\ UNCHANGED <<sections, organized, runMetadata, args, gi, ci, sectionEvents, all_events,
                   root_references, publish_log, all_success>>
    /\ UNCHANGED <<document, slugVars, tagVars, metaVars, parseVars,
                   pubVars, keyVars>>

\* for event_type, event in all_events: the units are handed to publish_event
\* in the order they were appended to all_events
PublishOrderReversed(events) == [i \in 1..Len(events) |-> events[Len(events) + 1 - i]]
PublishOrder(events) == events

\* one iteration of the publish loop (lines 643-648): publish_event returns
\* whether the unit was published
PublishNext ==
    /\ pc = "publish"
    /\ pub_i <= Len(all_events)
    /\ \E success \in BOOLEAN :
          /\ publish_log' = Append(publish_log,
                                   [id |-> PublishOrder(all_events)[pub_i][2].id,
                                    success |-> success])
          /\ all_success' = (all_success /\ success)
    /\ pub_i' = pub_i + 1
    /\ UNCHANGED <<sections, organized, runMetadata, userConfirmed, args, gi, ci, sectionEvents, all_events,
                   root_references, pc, halted>>
    /\ UNCHANGED <<document, slugVars, tagVars, metaVars, parseVars,
                   pubVars, keyVars>>

\* the end of main (lines 650-662)
Finish ==
    /\ pc = "publish"
    /\ pub_i > Len(all_events)
    /\ pc' = "done"
    /\ UNCHANGED <<sections, organized, runMetadata, userConfirmed, args, gi, ci, sectionEvents, all_events,
                   root_references, pub_i, publish_log, all_success, halted>>
    /\ UNCHANGED <<document, slugVars, tagVars, metaVars, parseVars,
                   pubVars, keyVars>>

Next ==
    \/ Start
    \/ Organize
    \/ CreateContentEvent
    \/ CreateGroupIndex
    \/ CloseGroup
    \/ CreateRootIndex
    \/ Confirm
    \/ PublishNext
    \/ Finish

Spec == Init /\ [][Next]_vars

(***************************************************************************)
(* extract_metadata on a metadata section of up to MaxMetaLines lines.     *)
(***************************************************************************)
AttrLine(name, value) == [kind |-> "attr", name |-> name, value |-> value]

\* the three spellings of the published_by aliases, one in mixed case, and an
\* alias of language
AliasLines ==
    {AttrLine("publishedby", <<"Acme">>), AttrLine("published_by", <<"Acme">>),
     AttrLine("publisher", <<"Acme">>), AttrLine("PublishedBy", <<"Acme">>),
     AttrLine("publisher", <<"Other", " ">>), AttrLine("lang", <<"en">>)}

\* comma-separated values with repeats in either case
ListValues == {<<"a", ",", " ", "A">>, <<"A", ",", "b">>, <<"b", ",", "a", " ">>}

ListLines == {AttrLine(name, value) : name \in {"tags", "keywords", "categories"},
                                      value \in ListValues}

OtherLines ==
    {AttrLine("author", <<"Alice", ",", " ", "Bob">>), AttrLine("note", <<"n">>),
     [kind |-> "plain", name |-> "", value |-> <<"text">>],
     [kind |-> "image", name |-> "", value |-> <<"pic.png">>]}

MetaLineInputs == AliasLines \cup ListLines \cup OtherLines

InitMeta ==
    /\ metaLines \in SeqsUpTo(MetaLineInputs, MaxMetaLines)
    /\ extracted = EmptyDict
    /\ metaPc = "extract"
    /\ IdleSlug
    /\ IdleTags
    /\ IdleOrg
    /\ IdleRun
    /\ IdleParse
    /\ IdlePublish
    /\ IdleKey

\* one call of extract_metadata, on a file with or without a title line
ExtractMetadata ==
    /\ metaPc = "extract"
    /\ \E title_match \in {<<>>, <<DocTitle>>} :
          /\ extracted' = extract_metadata(title_match, metaLines)
          /\ metaPc' = IF title_match = <<>> THEN "untitled" ELSE "extracted"
    /\ UNCHANGED metaLines
    /\ UNCHANGED <<slugVars, tagVars, orgVars, runVars, parseVars, pubVars, keyVars>>

NextMeta == ExtractMetadata

SpecMeta == InitMeta /\ [][NextMeta]_vars

(***************************************************************************)
(* parse_adoc_file on a file of up to MaxFileLines lines.                  *)
(***************************************************************************)
\* "= D", "== A", "=== B", the bare runs "====" and "=", "=t", a line of body
\* text and an attribute line
FileLineInputs ==
    { <<"=", " ", "D">>, <<"=", "=", " ", "A">>, <<"=", "=", "=", " ", "B">>,
      <<"=", "=", "=", "=">>, <<"=">>, <<"=", "t">>, <<"body1">>, <<":", "attr">> }

InitParse ==
    /\ fileLines \in [lines : SeqsUpTo(FileLineInputs, MaxFileLines), final_newline : BOOLEAN]
    /\ parsed = <<>>
    /\ parsePc = "parse"
    /\ IdleSlug
    /\ IdleTags
    /\ IdleOrg
    /\ IdleRun
    /\ IdleMeta
    /\ IdlePublish
    /\ IdleKey

\* one call of parse_adoc_file
ParseAdocFile ==
    /\ parsePc = "parse"
    /\ parsed' = parse_adoc_file_lines(fileLines)
    /\ parsePc' = "parsed"
    /\ UNCHANGED fileLines
    /\ UNCHANGED <<slugVars, tagVars, orgVars, runVars, metaVars, pubVars, keyVars>>

NextParse == ParseAdocFile

SpecParse == InitParse /\ [][NextParse]_vars

(***************************************************************************)
(* publish_event (modules/event_publisher.py) for one unit, with           *)
(* max_retries from 0 to MaxRetries.  At each attempt the publish command  *)
(* fails, times out, or succeeds, and the relay check that follows a       *)
(* successful publish confirms the unit, does not, or times out.  delay is *)
(* not negative, so time.sleep returns.                                    *)
(***************************************************************************)
AttemptOutcomes ==
    {"publish_failed", "publish_timeout", "unconfirmed", "verify_timeout", "confirmed"}

\* subprocess.TimeoutExpired leaves the function through the except clause
TimedOut(outcome) == outcome \in {"publish_timeout", "verify_timeout"}

\* while not success and attempts < max_retries
LoopContinuesOnceMore(success, attempts, max_retries) ==
    ~success /\ attempts <= max_retries
LoopContinues(success, attempts, max_retries) ==
    ~success /\ attempts < max_retries

InitPublish ==
    /\ pubMaxRetries \in 0..MaxRetries
    /\ pubAttempts = 0
    /\ pubSuccess = FALSE
    /\ pubLog = <<>>
    /\ pubResult = FALSE
    /\ pubPc = "loop"
    /\ IdleSlug
    /\ IdleTags
    /\ IdleOrg
    /\ IdleRun
    /\ IdleMeta
    /\ IdleParse
    /\ IdleKey

\* one iteration of the while loop (lines 24-61); a timeout returns False
\* (lines 67-69)
Attempt ==
    /\ pubPc = "loop"
    /\ LoopContinues(pubSuccess, pubAttempts, pubMaxRetries)
    /\ pubAttempts' = pubAttempts + 1
    /\ \E outcome \in AttemptOutcomes :
          /\ pubLog' = Append(pubLog, outcome)
          /\ pubSuccess' = (outcome = "confirmed")
          /\ IF TimedOut(outcome)
             THEN pubPc' = "returned" /\ pubResult' = FALSE
             ELSE pubPc' = pubPc /\ pubResult' = pubResult
    /\ UNCHANGED pubMaxRetries
    /\ UNCHANGED <<slugVars, tagVars, orgVars, runVars, metaVars, parseVars, keyVars>>

\* the loop is left: return success (lines 63-65)
ReturnSuccess ==
    /\ pubPc = "loop"
    /\ ~LoopContinues(pubSuccess, pubAttempts, pubMaxRetries)
    /\ pubPc' = "returned"
    /\ pubResult' = pubSuccess
    /\ UNCHANGED <<pubMaxRetries, pubAttempts, pubSuccess, pubLog>>
    /\ UNCHANGED <<slugVars, tagVars, orgVars, runVars, metaVars, parseVars, keyVars>>

NextPublish ==
    \/ Attempt
    \/ ReturnSuccess

\* the call runs on its own thread of control and every collaborator call
\* returns or times out, so a step that can be taken is taken
SpecPublish == InitPublish /\ [][NextPublish]_vars /\ WF_vars(NextPublish)

(***************************************************************************)
(* create_event (modules/event_creator.py) called up to MaxCalls times in  *)
(* one process, each time with any key argument and decrypt flag.  The     *)
(* decrypt collaborator and the signing command may fail at every call;    *)
(* either failure ends the process.                                        *)
(***************************************************************************)
\* the key arguments: two encrypted keys, a plain key, and the path of a file
\* holding the first encrypted key
KeyArguments == {"ncryptsec1", "ncryptsec2", "nsec1", "/keyfile"}

\* if ncryptsec.startswith("/"): ncryptsec = f.read().strip()
KeyRead(ncryptsec) == IF ncryptsec = "/keyfile" THEN "ncryptsec1" ELSE ncryptsec

\* what decrypt_key returns for an encrypted key
DecryptedKey(encrypted_key) == <<"privkey", encrypted_key>>

\* _DECRYPTED_KEY is None
NeedsKeyAtEveryCall(cache) == TRUE
NeedsKey(cache) == cache = <<>>

InitKey ==
    /\ keyCache = <<>>
    /\ decryptCalls = 0
    /\ signLog = <<>>
    /\ keyPc = "running"
    /\ IdleSlug
    /\ IdleTags
    /\ IdleOrg
    /\ IdleRun
    /\ IdleMeta
    /\ IdleParse
    /\ IdlePublish

\* one call of create_event (lines 85-152): the key is resolved when the cache
\* is empty, then the signing command is run with the cached key; a failure of
\* decrypt_key (lines 67-69) or of the command (lines 135-152) is sys.exit(1)
CreateEvent ==
    /\ keyPc = "running"
    /\ Len(signLog) < MaxCalls
    /\ \E ncryptsec \in KeyArguments, decrypt \in BOOLEAN,
          decrypt_ok \in BOOLEAN, sign_ok \in BOOLEAN :
          LET resolves == NeedsKey(keyCache)
              key == IF ~resolves THEN keyCache[1]
                     ELSE IF decrypt THEN DecryptedKey(KeyRead(ncryptsec))
                     ELSE ncryptsec
          IN  /\ decryptCalls' = decryptCalls + (IF resolves /\ decrypt THEN 1 ELSE 0)
              /\ IF resolves /\ decrypt /\ ~decrypt_ok
                 THEN /\ keyPc' = "exited"
                      /\ UNCHANGED <<keyCache, signLog>>
                 ELSE /\ keyCache' = <<key>>
                      /\ signLog' = Append(signLog, [ncryptsec |-> ncryptsec,
                                                     decrypt |-> decrypt, key |-> key])
                      /\ keyPc' = IF sign_ok THEN "running" ELSE "exited"
    /\ UNCHANGED <<slugVars, tagVars, orgVars, runVars, metaVars, parseVars, pubVars>>

NextKey == CreateEvent

SpecKey == InitKey /\ [][NextKey]_vars

(***************************************************************************)
(* Titles clean_tag is applied to.                                         *)
(***************************************************************************)
TitleChars == {"a", "A", "1", " ", "-", "!"}

Titles == SeqsUpTo(TitleChars, MaxTitleLen)

\* the word characters of a title, lower-cased: what is left of it when letter
\* case and every character that is not a letter, digit or underscore is ignored
WordSkeleton(text) ==
    LET kept == SelectSeq(text, IsWordChar)
    IN  [i \in 1..Len(kept) |-> LowerChar(kept[i])]

InitSlug ==
    /\ title \in Titles
    /\ other \in {o \in Titles : WordSkeleton(o) = WordSkeleton(title)}
    /\ slug = <<>>
    /\ otherSlug = <<>>
    /\ reSlug = <<>>
    /\ cleaned = FALSE
    /\ IdleTags
    /\ IdleOrg
    /\ IdleRun
    /\ IdleMeta
    /\ IdleParse
    /\ IdlePublish
    /\ IdleKey

\* derive the identifiers: clean_tag(title), clean_tag(other), and clean_tag of
\* the first result
CleanTitles ==
    /\ ~cleaned
    /\ slug' = clean_tag(title)
    /\ otherSlug' = clean_tag(other)
    /\ reSlug' = clean_tag(clean_tag(title))
    /\ cleaned' = TRUE
    /\ UNCHANGED <<title, other>>
    /\ UNCHANGED tagVars
    /\ UNCHANGED orgVars
    /\ UNCHANGED runVars
    /\ UNCHANGED <<metaVars, parseVars, pubVars, keyVars>>

NextSlug == CleanTitles

SpecSlug == InitSlug /\ [][NextSlug]_vars

(***************************************************************************)
(* Claims about slug derivation, checked under SpecSlug.                   *)
(***************************************************************************)
WellFormedSlug(s) ==
    /\ \A i \in 1..Len(s) : IsWordChar(s[i]) \/ s[i] = "-"
    /\ \A i \in 1..(Len(s) - 1) : ~(s[i] = "-" /\ s[i + 1] = "-")
    /\ s # <<>> => (s[1] # "-" /\ s[Len(s)] # "-")

DifferOnlyInCaseAndSeparators(t, o) == WordSkeleton(t) = WordSkeleton(o)

\* the two titles agree once letter case and the characters clean_tag strips
\* (neither word character, whitespace nor hyphen) are ignored: hyphens and
\* whitespace must match one for one
RECURSIVE DifferOnlyInCaseAndStripped(_, _)
DifferOnlyInCaseAndStripped(t, o) ==
    IF t # <<>> /\ Head(t) \in PunctChars THEN DifferOnlyInCaseAndStripped(Tail(t), o)
    ELSE IF o # <<>> /\ Head(o) \in PunctChars THEN DifferOnlyInCaseAndStripped(t, Tail(o))
    ELSE IF t = <<>> \/ o = <<>> THEN t = o
    ELSE /\ LowerChar(Head(t)) = LowerChar(Head(o))
         /\ DifferOnlyInCaseAndStripped(Tail(t), Tail(o))

\* C9 as stated: two titles that differ only in letter case and punctuation,
\* hyphens and other separators included, get the same slug.
C9_Original ==
    (cleaned /\ DifferOnlyInCaseAndSeparators(title, other)) => slug = otherSlug

\* C9 amended: two titles that differ only in letter case and in characters
\* that are neither word characters, whitespace nor hyphens get the same slug.
C9_SameSlugModuloCaseAndStripped ==
    (cleaned /\ DifferOnlyInCaseAndStripped(title, other)) => slug = otherSlug

\* two different titles, one with upper case and a stripped character, one slug
C9_Witness ==
    /\ cleaned
    /\ title = <<"A", "!", "a">>
    /\ other = <<"a", "a">>
    /\ slug = <<"a", "a">>
    /\ otherSlug = slug

(***************************************************************************)
(* Claims about the tag builder and validator, checked under SpecTags.     *)
(***************************************************************************)
LastOp == IF ops = <<>> THEN "none" ELSE ops[Len(ops)]
OpsApplied == {ops[i] : i \in 1..Len(ops)}
Errors == {validation.errors[i] : i \in 1..Len(validation.errors)}

\* C6 as stated: the tag set create_index_tags returns passes
\* validate_index_tags, and the one create_content_tags returns passes
\* validate_content_tags.
C6_Original ==
    /\ (origin = "create_index_tags" /\ ops = <<>> /\ validated = "index")
           => (~validation.raised /\ validation.is_valid)
    /\ (origin = "create_content_tags" /\ ops = <<>> /\ validated = "content")
           => (~validation.raised /\ validation.is_valid)

\* C6 amended: the tag set create_index_tags returns passes
\* validate_index_tags once at least one reference has been added to it with
\* add_reference_to_index (as returned it fails with the single violation
\* that an index needs a reference); the tag set create_content_tags returns
\* passes validate_content_tags.
C6_BuildThenValidate ==
    /\ (origin = "create_index_tags" /\ validated = "index"
            /\ "add_reference_to_index" \in OpsApplied)
           => (~validation.raised /\ validation.is_valid /\ validation.errors = <<>>)
    /\ (origin = "create_index_tags" /\ validated = "index" /\ ops = <<>>)
           => (~validation.raised /\ validation.errors = <<ReferenceError>>)
    /\ (origin = "create_content_tags" /\ validated = "content" /\ ops = <<>>)
           => (~validation.raised /\ validation.is_valid /\ validation.errors = <<>>)

\* a built index tag list with one reference, validated and found valid
C6_Witness ==
    /\ origin = "create_index_tags"
    /\ ops = <<"add_reference_to_index">>
    /\ validated = "index"
    /\ validation.is_valid
    /\ Len(tags) > 10

\* the list with the tags at positions i and i + 1 taken out
WithoutPair(list, i) == SubSeq(list, 1, i - 1) \o SubSeq(list, i + 2, Len(list))

\* C7: for every tag list whose tags have names, add_derivative_work_tags
\* returns the list with a p tag immediately followed by an E tag inserted:
\* directly after the first auto-update tag when there is one, at the end
\* otherwise; the tags that were there keep their order.
C7_DerivativePairAdjacent ==
    (LastOp = "add_derivative_work_tags" /\ \A i \in 1..Len(prevTags) : HasName(prevTags[i]))
        => LET firstAuto == {i \in PositionsOf(prevTags, "auto-update") :
                                \A j \in PositionsOf(prevTags, "auto-update") : i <= j}
               at == IF firstAuto = {} THEN Len(prevTags) + 1
                     ELSE (CHOOSE i \in firstAuto : TRUE) + 1
           IN  /\ ~opRaised
               /\ Len(tags) = Len(prevTags) + 2
               /\ tags[at] = <<"p", "opk">>
               /\ tags[at + 1][1] = "E"
               /\ tags[at + 1][2] = "oid"
               /\ firstAuto # {} => tags[at - 1][1] = "auto-update"
               /\ WithoutPair(tags, at) = prevTags

\* a list with two auto-update tags: the pair sits after the first of them,
\* with tags before and after it
C7_Witness ==
    /\ LastOp = "add_derivative_work_tags"
    /\ ~opRaised
    /\ Cardinality(PositionsOf(prevTags, "auto-update")) = 2
    /\ tags[3][1] = "auto-update"
    /\ tags[4][1] = "p"
    /\ tags[5][1] = "E"
    /\ Len(tags) > 8

\* C10: for every tag set (already for those whose tags all have a name) the
\* validators return a violation list holding one violation per absent
\* checked required field and the violation of every other failed check, and
\* is_valid is true exactly when the list is empty.
C10_AllViolationsAtOnce ==
    (\A i \in 1..Len(tags) : HasName(tags[i])) =>
    /\ validated = "index" =>
        /\ ~validation.raised
        /\ \A i \in 1..Len(IndexRequired) :
              ~InTagDict(tags, IndexRequired[i])
                  => <<"Missing required tag", IndexRequired[i]>> \in Errors
        /\ PositionsOf(tags, "a") = {} => ReferenceError \in Errors
        /\ (\E i \in PositionsOf(tags, "m") : tags[i] = <<"m", "text/plain">>
               /\ \A j \in PositionsOf(tags, "m") : j <= i) => MimeError \in Errors
        /\ (\E i \in PositionsOf(tags, "auto-update") : tags[i] = <<"auto-update", "maybe">>
               /\ \A j \in PositionsOf(tags, "auto-update") : j <= i)
              => AutoUpdateError \in Errors
        /\ validation.is_valid <=> validation.errors = <<>>
    /\ validated = "content" =>
        /\ ~validation.raised
        /\ \A i \in 1..Len(ContentRequired) :
              ~InTagDict(tags, ContentRequired[i])
                  => <<"Missing required tag", ContentRequired[i]>> \in Errors
        /\ validation.is_valid <=> validation.errors = <<>>

(***************************************************************************)
(* Claims about the section organizer, checked under SpecOrg.              *)
(***************************************************************************)
\* the headings of the input that have the given level, in input order
HeadingsOfLevel(level) == SelectSeq(sections, LAMBDA s : s.level = level)

\* the text begins with the given prefix
BeginsWith(text, prefix) ==
    Len(text) >= Len(prefix) /\ SubSeq(text, 1, Len(prefix)) = prefix

\* C1: a heading sequence with at least one level-2 heading and no level-1
\* heading is organized into exactly one group, titled with the document
\* title and marked root, whose children are the level-2 headings of the
\* input, one child each, in input order.
C1_NoLevel1OneRootGroup ==
    (pc = "organized" /\ HeadingsOfLevel(1) = <<>> /\ HeadingsOfLevel(2) # <<>>)
        => /\ Len(organized) = 1
           /\ organized[1].title = DocTitle
           /\ organized[1].is_root
           /\ Len(organized[1].l2_sections) = Len(HeadingsOfLevel(2))
           /\ \A k \in 1..Len(HeadingsOfLevel(2)) :
                 /\ organized[1].l2_sections[k].title = HeadingsOfLevel(2)[k].title
                 /\ BeginsWith(organized[1].l2_sections[k].content,
                               HeadingsOfLevel(2)[k].content)

\* two level-2 headings with different titles and a deeper heading, no level 1
C1_Witness ==
    /\ pc = "organized"
    /\ Len(sections) = 3
    /\ sections[1].level = 2 /\ sections[1].title = TitleB
    /\ sections[2].level = 3
    /\ sections[3].level = 2 /\ sections[3].title = TitleA
    /\ Len(organized) = 1
    /\ Len(organized[1].l2_sections) = 2

\* C2: a heading sequence with N >= 1 level-1 headings is organized into
\* exactly N groups, in the order of the level-1 headings; the first group is
\* the root and no other group is.
C2_OneGroupPerLevel1 ==
    (pc = "organized" /\ HeadingsOfLevel(1) # <<>>)
        => /\ Len(organized) = Len(HeadingsOfLevel(1))
           /\ \A k \in 1..Len(organized) :
                 /\ organized[k].title = HeadingsOfLevel(1)[k].title
                 /\ organized[k].content = HeadingsOfLevel(1)[k].content
                 /\ organized[k].is_root <=> (k = 1)
           /\ Cardinality({k \in 1..Len(organized) : organized[k].is_root}) = 1

\* two level-1 headings with different titles, the second with a child
C2_Witness ==
    /\ pc = "organized"
    /\ Len(sections) = 3
    /\ sections[1].level = 1 /\ sections[1].title = TitleB
    /\ sections[2].level = 1 /\ sections[2].title = TitleA
    /\ sections[3].level = 2
    /\ Len(organized) = 2
    /\ organized[1].is_root /\ ~organized[2].is_root
    /\ Len(organized[2].l2_sections) = 1

(***************************************************************************)
(* The run: what main builds from a document.                              *)
(***************************************************************************)
ATags(tagList) == SelectSeq(tagList, LAMBDA t : t[1] = "a")

ReferencesLast(tagList) ==
    \A i, j \in 1..Len(tagList) :
        (tagList[i][1] = "a" /\ tagList[j][1] # "a") => j < i

\* the reference token to a signed unit
ReferenceTo(event) ==
    create_reference_tag(event.kind, event.pubkey, DTagOf(event), event.id, PrimaryRelay)

EventsOfType(type) == SelectSeq(all_events, LAMBDA e : e[1] = type)

LastEvent(events) == events[Len(events)]

\* the step of the run that builds an index unit
IndexBuilt ==
    /\ Len(all_events') = Len(all_events) + 1
    /\ LastEvent(all_events')[2].kind = 30040

\* the step of the run that builds a content unit
ContentBuilt ==
    /\ Len(all_events') = Len(all_events) + 1
    /\ LastEvent(all_events')[2].kind = 30041

\* the root index is built: the build loop has run to its end
RootBuilt == all_events # <<>> /\ LastEvent(all_events)[1] = "Root Index"

\* "= Doc / :author: Alice / == A / body1 / == B / body2"
ScenarioDocument == <<HeadingLine(2, TRUE, TitleA), HeadingLine(2, TRUE, TitleB)>>

InScenario ==
    /\ document = ScenarioDocument
    /\ "author" \in DOMAIN runMetadata
    /\ RootBuilt

ScenarioResult ==
    /\ organized = << [title |-> DocTitle, content |-> <<>>, is_root |-> TRUE,
                       l2_sections |-> << [title |-> TitleA, content |-> <<"body1">>],
                                          [title |-> TitleB, content |-> <<"body2">>] >>] >>
    /\ [k \in 1..Len(all_events) |-> all_events[k][1]] = <<"Content", "Content", "Root Index">>
    /\ all_events[1][2].content = <<"body1">>
    /\ all_events[2][2].content = <<"body2">>
    /\ ATags(all_events[3][2].tags)
          = <<ReferenceTo(all_events[1][2]), ReferenceTo(all_events[2][2])>>

\* C3: whenever the run builds an index unit, for a group or for the root,
\* its 'a' tags are one reference per unit handed to create_index_event, in
\* the order of that list, which for a group is the order its content units
\* were created in, and every 'a' tag comes after every other tag; the
\* scenario document yields one root group titled Doc with children A and B,
\* content units A and B and one index whose references are A then B.
C3_ReferencesInCreationOrder ==
    /\ [](InScenario => ScenarioResult)
    /\ [][IndexBuilt =>
            LET index == LastEvent(all_events')
                passed == IF index[1] = "Index" THEN sectionEvents ELSE root_references
            IN  /\ ATags(index[2].tags)
                      = [i \in 1..Len(passed) |-> ReferenceTo(passed[i].event)]
                /\ ReferencesLast(index[2].tags)
                /\ index[1] = "Index" =>
                      /\ Len(passed) = Len(organized[gi].l2_sections)
                      /\ \A i \in 1..Len(passed) :
                            passed[i].event
                               = all_events[Len(all_events) - Len(passed) + i][2]
         ]_vars

\* the scenario document's root index, and the index of a group with two
\* content units
C3_Witness ==
    /\ InScenario
    /\ Len(ATags(LastEvent(all_events)[2].tags)) = 2

C5_Original ==
    [][ContentBuilt =>
          LET group == organized[gi]
              child == group.l2_sections[ci]
          IN  DTagOf(LastEvent(all_events')[2])
                 = IF group.is_root
                   THEN clean_tag(child.title)
                   ELSE clean_tag(group.title) \o <<"-">> \o clean_tag(child.title)
       ]_vars

\* C5: the d tag of every content unit the run builds is the slug of its
\* group's title, a hyphen, and the slug of the section's title, under the
\* root group as under every other group.
C5_AlwaysNamespaced ==
    [][ContentBuilt =>
          LET group == organized[gi]
              child == group.l2_sections[ci]
          IN  DTagOf(LastEvent(all_events')[2])
                 = clean_tag(group.title) \o <<"-">> \o clean_tag(child.title)
       ]_vars

\* content units built under the root group and under a non-root group
C5_Witness ==
    /\ RootBuilt
    /\ Len(organized) = 2
    /\ Len(organized[1].l2_sections) = 1
    /\ Len(organized[2].l2_sections) = 1
    /\ Len(EventsOfType("Content")) = 2
    /\ DTagOf(all_events[1][2])
          = clean_tag(organized[1].title) \o <<"-">> \o clean_tag(organized[1].l2_sections[1].title)

\* C11: for every list of tags, a tag with a name and no value and an empty
\* tag included, both validators return a pair and do not raise.
C11_ValidatorNeverRaises ==
    validated # "no" => ~validation.raised

\* C12: a document without a heading of level >= 2 aborts the run before any
\* unit is built.
C12_NoSectionsAborts ==
    (\A i \in 1..Len(document) : document[i].markers < 2)
        => /\ all_events = <<>>
           /\ pc \notin {"build", "confirm", "publish", "done"}

\* C13: a document with N level-1 heading lines (its title line and the
\* further "= A" lines; documents with a bare "=" line left aside) is parsed
\* and organized into N groups, the first of them the root and no other.
C13_OneGroupPerLevel1Line ==
    (/\ organized # <<>>
     /\ \A i \in 1..Len(document) : document[i].spaced)
        => /\ Len(organized)
                 = 1 + Cardinality({i \in 1..Len(document) : document[i].markers = 1})
           /\ \A k \in 1..Len(organized) : organized[k].is_root <=> (k = 1)

\* a collaborator call has failed: signing or verification of a unit, or the
\* publishing of one
SigningFailed == halted \in {"sign_failed", "verify_failed"}
PublishFailed == \E i \in 1..Len(publish_log) : ~publish_log[i].success

\* C14 as stated: after a failed collaborator call no further unit is signed
\* and none is published.
C14_Original ==
    [][(SigningFailed \/ PublishFailed)
          => (all_events' = all_events /\ publish_log' = publish_log)]_vars

\* C14: after a failed signing or verification no further unit is signed and
\* no unit is ever published; a failed publish does not halt the run: every
\* unit built is still handed to the publisher, in build order, and the run
\* ends with all_success false.
C14_SigningFailureHalts ==
    /\ [][SigningFailed => (all_events' = all_events /\ publish_log' = publish_log)]_vars
    /\ [](SigningFailed => (publish_log = <<>> /\ pc = "exit1"))
    /\ [](pc = "done" =>
            /\ [i \in 1..Len(publish_log) |-> publish_log[i].id]
                  = [i \in 1..Len(all_events) |-> all_events[i][2].id]
            /\ all_success <=> ~PublishFailed)

\* the verification of the third unit fails after two units were built
C14_Witness ==
    /\ halted = "verify_failed"
    /\ Len(all_events) = 2
    /\ pc = "exit1"

(***************************************************************************)
(* The metadata extractor.                                                 *)
(***************************************************************************)
\* the attribute names of the lines, as written, with the canonical key each
\* is listed under
AliasTable ==
    { <<"publishedby", "published_by">>, <<"published_by", "published_by">>,
      <<"publisher", "published_by">>, <<"PublishedBy", "published_by">>,
      <<"lang", "language">> }

CanonicalKeys == {a[2] : a \in AliasTable}

\* the lines of the section whose name is listed under the canonical key
LinesFor(key) ==
    {i \in 1..Len(metaLines) :
        metaLines[i].kind = "attr" /\ <<metaLines[i].name, key>> \in AliasTable}

\* the value of an attribute line without its surrounding blanks
ValueText(line) == SelectSeq(line.value, LAMBDA c : c # " ")

ValuesOf(name) ==
    IF FirstValue(metaLines, name) = <<>> THEN <<>>
    ELSE SplitStrip(FirstValue(metaLines, name)[1])

AllListValues == ValuesOf("tags") \o ValuesOf("keywords") \o ValuesOf("categories")

\* the values that are no case-insensitive repeat of an earlier one, in order
RECURSIVE FirstOccurrences(_, _)
FirstOccurrences(values, i) ==
    IF i > Len(values) THEN <<>>
    ELSE (IF \A j \in 1..(i - 1) : Lower(values[j]) # Lower(values[i])
          THEN <<values[i]>> ELSE <<>>)
         \o FirstOccurrences(values, i + 1)

OwnedLevel2 ==
    {i \in 1..Len(sections) :
        /\ sections[i].level = 2
        /\ HeadingsOfLevel(1) # <<>> => \E j \in 1..(i - 1) : sections[j].level = 1}

\* the children of all groups, in order
RECURSIVE ChildrenOf(_)
ChildrenOf(groups) ==
    IF groups = <<>> THEN <<>> ELSE Head(groups).l2_sections \o ChildrenOf(Tail(groups))

\* the k-th smallest element of a set of numbers
RECURSIVE Nth(_, _)
Nth(S, k) == IF k = 1 THEN Min(S) ELSE Nth(S \ {Min(S)}, k - 1)

\* a deeper heading as it is re-inserted into a body
FoldedText(section) ==
    <<"\n", "\n">> \o Markers(section.level) \o <<" ">> \o section.title
    \o <<"\n">> \o section.content

\* the owned level-2 heading nearest before heading i, 0 when there is none
NearestOwnedBefore(i) ==
    IF \E j \in OwnedLevel2 : j < i THEN Max({j \in OwnedLevel2 : j < i}) ELSE 0

\* the same, when no level-1 heading lies between the two
NearestOwnedInGroup(i) ==
    IF NearestOwnedBefore(i) # 0
       /\ \A j \in NearestOwnedBefore(i)..i : sections[j].level # 1
    THEN NearestOwnedBefore(i) ELSE 0

\* the body of the level-2 heading j with the deeper headings i from the
\* given set folded in, in input order
RECURSIVE BodyWithFolds(_, _, _)
BodyWithFolds(j, folded, i) ==
    IF i > Len(sections) THEN <<>>
    ELSE (IF i \in folded THEN FoldedText(sections[i]) ELSE <<>>)
         \o BodyWithFolds(j, folded, i + 1)

\* C17 as stated: every heading of level >= 3 is folded into the nearest
\* preceding level-2 heading that is a child of a group.
C17_Original ==
    pc = "organized" =>
        /\ Len(ChildrenOf(organized)) = Cardinality(OwnedLevel2)
        /\ \A k \in 1..Len(ChildrenOf(organized)) :
              LET j == Nth(OwnedLevel2, k)
                  folded == {i \in 1..Len(sections) :
                                sections[i].level >= 3 /\ NearestOwnedBefore(i) = j}
              IN  ChildrenOf(organized)[k].content
                     = sections[j].content \o BodyWithFolds(j, folded, 1)

\* C17: every heading of level >= 3 whose nearest preceding heading of level
\* 1 or 2 is a level-2 heading owned by a group is folded into that child's
\* body, as a blank line, the heading's markup and the heading's body, in
\* input order; every other heading of level >= 3 is dropped; the children
\* are the owned level-2 headings, one each, in input order.
C17_FoldedIntoCurrentChild ==
    pc = "organized" =>
        /\ Len(ChildrenOf(organized)) = Cardinality(OwnedLevel2)
        /\ \A k \in 1..Len(ChildrenOf(organized)) :
              LET j == Nth(OwnedLevel2, k)
                  folded == {i \in 1..Len(sections) :
                                sections[i].level >= 3 /\ NearestOwnedInGroup(i) = j}
              IN  /\ ChildrenOf(organized)[k].title = sections[j].title
                  /\ ChildrenOf(organized)[k].content
                        = sections[j].content \o BodyWithFolds(j, folded, 1)

\* a group with a child that two deeper headings are folded into
C17_Witness ==
    /\ pc = "organized"
    /\ Len(sections) = 4
    /\ sections[1].level = 1
    /\ sections[2].level = 2 /\ sections[2].title = TitleA
    /\ sections[3].level = 3 /\ sections[3].title = TitleB
    /\ sections[4].level = 3 /\ sections[4].title = TitleA
    /\ Len(organized) = 1
    /\ organized[1].l2_sections[1].content
          = <<"body1", "\n", "\n", "=", "=", "=", " ", "B", "\n",
              "\n", "\n", "=", "=", "=", " ", "A", "\n", "body1">>

\* the position of the first level-1 heading of the input
FirstLevel1 == Min({i \in 1..Len(sections) : sections[i].level = 1})

\* C18: when the input has a level-1 heading, the headings before the first
\* level-1 heading leave no trace: the call returns what it returns for the
\* input without them, the groups are the level-1 headings and the children
\* are the level-2 headings after the first level-1 heading.
C18_HeadingsBeforeFirstGroupDropped ==
    (pc = "organized" /\ HeadingsOfLevel(1) # <<>>) =>
        /\ organized = organize_sections(DocTitle, SubSeq(sections, FirstLevel1, Len(sections)))
        /\ Len(organized) = Len(HeadingsOfLevel(1))
        /\ Len(ChildrenOf(organized))
              = Cardinality({i \in FirstLevel1..Len(sections) : sections[i].level = 2})

\* a level-2 heading with a paragraph and a deeper heading, then the first
\* level-1 heading and its child
C18_Witness ==
    /\ pc = "organized"
    /\ Len(sections) = 4
    /\ sections[1].level = 2 /\ sections[1].title = TitleA
    /\ sections[2].level = 3
    /\ sections[3].level = 1 /\ sections[3].title = TitleB
    /\ sections[4].level = 2 /\ sections[4].title = TitleB
    /\ organized = << [title |-> TitleB, content |-> <<>>, is_root |-> TRUE,
                       l2_sections |-> << [title |-> TitleB, content |-> <<>>] >>] >>

(***************************************************************************)
(* The parser.                                                             *)
(***************************************************************************)
\* the length of the run of marker characters a line starts with
RECURSIVE MarkerRun(_)
MarkerRun(line) ==
    IF line # <<>> /\ Head(line) = "=" THEN 1 + MarkerRun(Tail(line)) ELSE 0

\* a heading line: one or more marker characters followed by a space
IsHeadingLine(line) ==
    /\ MarkerRun(line) >= 1
    /\ Len(line) > MarkerRun(line)
    /\ line[MarkerRun(line) + 1] = " "

HeadingPositions ==
    {i \in 1..Len(fileLines.lines) : IsHeadingLine(fileLines.lines[i])}

\* the title of a heading line
TitleOfLine(line) == SubSeq(line, MarkerRun(line) + 2, Len(line))

\* the text of the lines after line i up to the next heading line
RECURSIVE BodyText(_)
BodyText(i) ==
    IF i + 1 > Len(fileLines.lines) \/ i + 1 \in HeadingPositions THEN <<>>
    ELSE fileLines.lines[i + 1] \o BodyText(i + 1)

\* a body without its line ends
TextOf(content) == SelectSeq(content, LAMBDA c : c # "\n")

\* C19: the sections parse_adoc_file returns are the heading lines of the
\* file, one section each, in order, with the level of the marker run, the
\* title of the line and as body the lines up to the next heading line.
C19_OneSectionPerHeadingLine ==
    parsePc = "parsed" =>
        /\ Len(parsed.sections) = Cardinality(HeadingPositions)
        /\ \A k \in 1..Len(parsed.sections) :
              LET i == Nth(HeadingPositions, k)
              IN  /\ parsed.sections[k].level = MarkerRun(fileLines.lines[i])
                  /\ parsed.sections[k].title = TitleOfLine(fileLines.lines[i])
                  /\ TextOf(parsed.sections[k].content) = BodyText(i)

\* C20: only a heading line gives a section, and a line that starts with
\* marker characters not followed by a space stays in the body of the section
\* before it.
C20_OnlyMarkerSpaceLinesAreHeadings ==
    parsePc = "parsed" =>
        /\ \A k \in 1..Len(parsed.sections) :
              \E i \in HeadingPositions :
                  /\ parsed.sections[k].level = MarkerRun(fileLines.lines[i])
                  /\ parsed.sections[k].title = TitleOfLine(fileLines.lines[i])
        /\ \A i \in HeadingPositions :
              MarkerRun(fileLines.lines[i]) >= 2 =>
                  \E k \in 1..Len(parsed.sections) :
                      /\ parsed.sections[k].title = TitleOfLine(fileLines.lines[i])
                      /\ TextOf(parsed.sections[k].content) = BodyText(i)

(***************************************************************************)
(* The validator: adjacency and required fields.                           *)
(***************************************************************************)
\* some E tag of the list is not immediately preceded by a p tag
SomePointerNotAfterIdentity ==
    \E i \in PositionsOf(tags, "E") : i = 1 \/ tags[i - 1][1] # "p"

\* C21: validate_index_tags reports an adjacency violation for every tag list
\* that holds a p tag and an E tag with some E tag not immediately preceded
\* by a p tag (an E tag before every p tag included), and none when every E
\* tag directly follows a p tag.
C21_AdjacencyReported ==
    (validated = "index" /\ ~validation.raised
        /\ PositionsOf(tags, "p") # {} /\ PositionsOf(tags, "E") # {})
        => (AdjacencyError \in Errors <=> SomePointerNotAfterIdentity)

\* the fields an index unit and a content unit must carry
IndexRequiredFields ==
    {"d", "title", "auto-update", "m", "M", "l", "reading-direction", "version"}
ContentRequiredFields == {"d", "title", "m", "M", "l"}

\* C22: an index tag list lacking one of its required fields is found invalid
\* by validate_index_tags, and a content tag list lacking one of its required
\* fields is found invalid by validate_content_tags.
C22_EveryRequiredFieldChecked ==
    /\ (validated = "index" /\ ~validation.raised
            /\ \E f \in IndexRequiredFields : PositionsOf(tags, f) = {})
           => ~validation.is_valid
    /\ (validated = "content" /\ ~validation.raised
            /\ \E f \in ContentRequiredFields : PositionsOf(tags, f) = {})
           => ~validation.is_valid

(***************************************************************************)
(* External identifiers.                                                   *)
(***************************************************************************)
\* the tags named name of the list built, in order
TagsNamed(name) == SelectSeq(tags, LAMBDA tag : HasName(tag) /\ tag[1] = name)

IdentifierOf(scheme) == <<"i", <<scheme, ":", tagMetadata[scheme]>>>>
KindMarker(scheme) == <<"k", scheme>>

HasTag(tag) == \E i \in 1..Len(tags) : tags[i] = tag

\* C23 as stated: each external identifier of the metadata is paired with its
\* own kind marker, also when both are present.
C23_Original ==
    (origin = "create_index_tags" /\ ops = <<>>)
        => \A scheme \in {"doi", "isbn"} :
              scheme \in DOMAIN tagMetadata
                  => HasTag(IdentifierOf(scheme)) /\ HasTag(KindMarker(scheme))

\* C23 amended: a doi yields an i tag doi:<value> directly followed by a k tag
\* doi; an isbn yields an i tag isbn:<value>, directly followed by a k tag
\* isbn only when the metadata has no doi; with both, the list has the single
\* kind marker doi.  No other i or k tag is built.
C23_KindMarkerOnce ==
    (origin = "create_index_tags" /\ ops = <<>>)
        => /\ TagsNamed("i") =
                  (IF "doi" \in DOMAIN tagMetadata THEN <<IdentifierOf("doi")>> ELSE <<>>)
                  \o (IF "isbn" \in DOMAIN tagMetadata THEN <<IdentifierOf("isbn")>> ELSE <<>>)
           /\ TagsNamed("k") =
                  (IF "doi" \in DOMAIN tagMetadata THEN <<KindMarker("doi")>>
                   ELSE IF "isbn" \in DOMAIN tagMetadata THEN <<KindMarker("isbn")>>
                   ELSE <<>>)
           /\ \A i \in PositionsOf(tags, "k") : tags[i - 1][1] = "i"

\* a list built from metadata holding both a doi and an isbn
C23_Witness ==
    /\ origin = "create_index_tags"
    /\ ops = <<>>
    /\ {"doi", "isbn"} \subseteq DOMAIN tagMetadata
    /\ HasTag(IdentifierOf("isbn"))
    /\ HasTag(KindMarker("doi"))

(***************************************************************************)
(* The content units of a run.                                             *)
(***************************************************************************)
\* how many tags named name a unit carries
CountOf(event, name) == Cardinality(PositionsOf(event.tags, name))

\* C24: every content unit handed to the signing collaborator carries each
\* of its required fields (identifier, title, media type, category marker,
\* language tag) exactly once, whatever images, wiki links or author are
\* added.
C24_RequiredFieldsOnce ==
    \A k \in 1..Len(all_events) :
        all_events[k][1] = "Content"
            => \A f \in ContentRequiredFields : CountOf(all_events[k][2], f) = 1

\* C25: the content units built for the children of one group have pairwise
\* distinct d tags.
C25_IdentifiersDistinctInGroup ==
    \A i, j \in 1..Len(sectionEvents) :
        i # j => sectionEvents[i].d_tag # sectionEvents[j].d_tag

PublishedAt(event) == {k \in 1..Len(publish_log) : publish_log[k].id = event.id}

\* the index unit references the unit
References(index, event) ==
    \E t \in 1..Len(index.tags) : index.tags[t] = ReferenceTo(event)

IsIndexEntry(entry) == entry[1] \in {"Index", "Root Index"}

C28_PublishBounded ==
    /\ [](/\ pubAttempts = Len(pubLog)
          /\ Len(pubLog) <= pubMaxRetries
          /\ \A k \in 1..Len(pubLog) : pubLog[k] = "confirmed" => k = Len(pubLog)
          /\ pubPc = "returned"
                => /\ pubResult <=> (pubLog # <<>> /\ pubLog[Len(pubLog)] = "confirmed")
                   /\ pubMaxRetries = 0 => (~pubResult /\ pubLog = <<>>))
    /\ <>(pubPc = "returned")
    /\ [][pubPc = "returned" => UNCHANGED pubVars]_vars

\* a call that returned true at its last permitted attempt, after a failed
\* publish and an unconfirmed one
C28_Witness ==
    /\ pubPc = "returned"
    /\ pubResult
    /\ pubMaxRetries = 3
    /\ pubLog = <<"publish_failed", "unconfirmed", "confirmed">>

(***************************************************************************)
(* Build before publish.                                                   *)
(***************************************************************************)
\* how many children the groups from position g on have
RECURSIVE ChildCount(_)
ChildCount(g) ==
    IF g > Len(organized) THEN 0
    ELSE Len(organized[g].l2_sections) + ChildCount(g + 1)

\* the non-root groups that have children
IndexedGroups ==
    {g \in 1..Len(organized) :
        ~organized[g].is_root /\ organized[g].l2_sections # <<>>}

\* every unit of the run has been signed and verified: one content unit per
\* child of every group, one index per non-root group with children, and the
\* root index
AllUnitsBuilt ==
    /\ Len(EventsOfType("Content")) = ChildCount(1)
    /\ Len(EventsOfType("Index")) = Cardinality(IndexedGroups)
    /\ Len(EventsOfType("Root Index")) = 1
    /\ RootBuilt

EndedEarly ==
    \/ halted \in {"sign_failed", "verify_failed", "cancelled"}
    \/ pc # "start" /\ args.file_only

\* C29: no unit is published before every unit of the run has been signed and
\* verified and the user has confirmed (or --yes was given), and no unit is
\* signed once publishing has begun; a signing failure, a verification
\* failure, --file-only or a declined confirmation ends the run with no unit
\* published.
C29_BuildAllBeforePublish ==
    /\ [](publish_log # <<>> => (AllUnitsBuilt /\ userConfirmed))
    /\ [](EndedEarly => (publish_log = <<>> /\ pc \in {"exit0", "exit1"}))
    /\ [][publish_log' # publish_log => (AllUnitsBuilt /\ all_events' = all_events)]_vars
    /\ [][EndedEarly => UNCHANGED <<all_events, publish_log>>]_vars

\* a run over two groups, confirmed, with its first unit handed to the
\* publisher
C29_Witness ==
    /\ pc = "publish"
    /\ userConfirmed
    /\ Len(publish_log) = 1
    /\ Len(all_events) = 4
    /\ Cardinality(IndexedGroups) = 1
    /\ AllUnitsBuilt

(***************************************************************************)
(* The signing key.                                                        *)
(***************************************************************************)
\* the key the first signing call of the process resolved: the decrypted key
\* argument, or the key argument as given when decrypt is false
FirstResolved ==
    IF signLog[1].decrypt THEN DecryptedKey(KeyRead(signLog[1].ncryptsec))
    ELSE signLog[1].ncryptsec

\* C30: across the create_event calls of one process the signing key is
\* resolved once, by the first call (decrypted, or taken as given when decrypt
\* is false); create_event calls the decrypt collaborator at most once; every
\* later call signs with the cached key whatever key argument or decrypt flag
\* it is given.
C30_KeyResolvedOnce ==
    /\ decryptCalls <= 1
    /\ signLog # <<>>
          => /\ keyCache = <<FirstResolved>>
             /\ \A i \in 1..Len(signLog) : signLog[i].key = FirstResolved
             /\ decryptCalls = (IF signLog[1].decrypt THEN 1 ELSE 0)

\* three calls: the first decrypts, the later ones name other keys, one of
\* them with decrypt set again
C30_Witness ==
    /\ Len(signLog) = 3
    /\ signLog[1].decrypt /\ signLog[1].ncryptsec = "ncryptsec1"
    /\ ~signLog[2].decrypt /\ signLog[2].ncryptsec = "nsec1"
    /\ signLog[3].decrypt /\ signLog[3].ncryptsec = "ncryptsec2"
    /\ signLog[3].key = DecryptedKey("ncryptsec1")
    /\ decryptCalls = 1

====
